---------------------------- MODULE Spec2Model ----------------------------
(***************************************************************************)
(* rvelox: a single-pass bytecode compiler and stack VM for a Lox dialect. *)
(*                                                                         *)
(* The model covers the object heap / string interner (object.rs), the     *)
(* chunk and its opcodes (chunk.rs, debug.rs), the compiler (compiler.rs), *)
(* both as the code it emits for a syntax tree and as the parser working   *)
(* token by token, and the interpreter loop (vm.rs), driven as the REPL    *)
(* drives it (velox.rs): a sequence of interpret calls on one VM.  The     *)
(* scanner (scanner.rs) is modelled character by character, as the token   *)
(* loop of main.rs drives it.                                              *)
(*                                                                         *)
(* Rust indexes from 0 and TLA+ from 1: objects[i] of the source is        *)
(* objects[i + 1] here, and likewise for code, lines and constants.        *)
(* A Rust panic (index out of bounds, unwrap/expect on nothing) ends the   *)
(* process: the model records it as the result "Panic" and stops.          *)
(***************************************************************************)
EXTENDS Integers, Sequences, FiniteSets, TLC

VARIABLES
    stack,      \* VM.stack: Vec<Value>, bottom first
    objects,    \* VM.allocator.objects: Vec<ObjHeader>, the boxed string of each
    strings,    \* VM.allocator.strings: HashMap<String, ObjRef<String>>
    chunk,      \* the Chunk of the running interpret call
    ip,         \* Runner.ip, as the number of code bytes consumed so far
    globals,    \* Runner.globals: HashMap<ObjRef<String>, Value>
    pc,         \* "idle": between interpret calls, "compile"/"sync": inside
                \* Compiler::compile, "scan": a Scanner is live, "run": inside
                \* Runner::run, "dead": panicked
    result,     \* what the last interpret call returned ("None" until it returns)
    err,        \* the last report of runtime_error on the error stream
    budget,     \* statements the session may still submit
    issued,     \* log of the interner's direct calls: <<[name, ref], ...>>
    parser,     \* Compiler.parser of the compile in progress, or of the last one
    scanner     \* the Scanner of the scan in progress and the tokens it returned

vars == <<stack, objects, strings, chunk, ip, globals, pc, result, err, budget, issued,
          parser, scanner>>

-----------------------------------------------------------------------------
(* Bounds of the model *)

\* statements a session submits in all, over all of its interpret calls
MaxStmts == 2

\* direct intern calls of the interner's own specification
MaxInterns == 5

\* pieces a scanned source is made of
MaxLexemes == 2

\* calls of scan_token followed beyond one per character of the source
MaxEofCalls == 2

-----------------------------------------------------------------------------
(* value.rs *)

\* enum Value { Nil, Bool(bool), Number(f64), String(ObjRef<String>) }.  The
\* payload v is an integer for every variant: 0 for Nil, 0/1 for Bool, the
\* number itself for Number (the model's numbers are the integral doubles),
\* ObjRef.index for String.
Nil == [t |-> "Nil", v |-> 0]

Bool(b) == [t |-> "Bool", v |-> IF b THEN 1 ELSE 0]

Number(n) == [t |-> "Number", v |-> n]

String(r) == [t |-> "String", v |-> r]

\* Value::is_falsy
is_falsy(value) ==
    CASE value.t = "Bool" -> value.v = 0
      [] value.t = "Nil" -> TRUE
      [] OTHER -> FALSE

-----------------------------------------------------------------------------
(* object.rs *)

\* ObjAllocator::new
EmptyStrings == [s \in {} |-> 0]

\* ObjAllocator::alloc: push the object, then take the length AFTER the push as
\* the index of the new reference.
alloc(objs, obj) ==
    LET pushed == Append(objs, obj)
    IN  [objects |-> pushed, ref |-> Len(pushed)]

\* intern as it would be without `self.strings.insert(name, reference)`: a
\* string is allocated again each time it is interned
intern_without_insert(objs, strs, name) ==
    IF name \in DOMAIN strs
    THEN [objects |-> objs, strings |-> strs, ref |-> strs[name]]
    ELSE LET a == alloc(objs, name)
         IN  [objects |-> a.objects, strings |-> strs, ref |-> a.ref]

\* intern as it would be without the lookup in `strings`: every call allocates
intern_always_allocates(objs, strs, name) ==
    LET a == alloc(objs, name)
    IN  [objects |-> a.objects,
         strings |-> [s \in DOMAIN strs \cup {name} |->
                         IF s = name THEN a.ref ELSE strs[s]],
         ref |-> a.ref]

\* ObjAllocator::intern
intern(objs, strs, name) ==
    IF name \in DOMAIN strs
    THEN [objects |-> objs, strings |-> strs, ref |-> strs[name]]
    ELSE LET a == alloc(objs, name)
         IN  [objects |-> a.objects,
              strings |-> [s \in DOMAIN strs \cup {name} |->
                              IF s = name THEN a.ref ELSE strs[s]],
              ref |-> a.ref]

\* ObjAllocator::deref: self.objects[reference.index], a panic when the index is
\* out of bounds.
deref(objs, ref) ==
    IF ref + 1 \in DOMAIN objs
    THEN [ok |-> TRUE, obj |-> objs[ref + 1]]
    ELSE [ok |-> FALSE, obj |-> ""]

-----------------------------------------------------------------------------
(* chunk.rs *)

\* One byte of Chunk.code: an opcode, or the operand that follows one.
OpByte(op) == [op |-> op, n |-> 0]

OperandByte(n) == [op |-> "", n |-> n]

\* Chunk::new
ChunkNew == [code |-> <<>>, constants |-> <<>>, lines |-> <<>>]

\* add_constant as it would be with the location taken after the push
add_constant_after_push(c, value) ==
    [chunk |-> [c EXCEPT !.constants = Append(@, value)],
     location |-> Len(c.constants) + 1]

\* Chunk::add_constant: the location is the length before the push.
add_constant(c, value) ==
    [chunk |-> [c EXCEPT !.constants = Append(@, value)],
     location |-> Len(c.constants)]

\* Chunk::write
write(c, byte, line) ==
    [c EXCEPT !.code = Append(@, byte), !.lines = Append(@, line)]


\* enum Op, its variants in the order of their discriminants 0, 1, ...
Op ==
    <<"Constant", "Nil", "True", "False", "Equal", "Greater", "Less", "Add",
      "Subtract", "Multiply", "Divide", "Not", "Negate", "Return">>

\* Into<u8> for Op, `self as u8`: an opcode that is no variant of Op has no byte
into_u8(op) ==
    IF \E b \in DOMAIN Op : Op[b] = op
    THEN [ok |-> TRUE, byte |-> (CHOOSE b \in DOMAIN Op : Op[b] = op) - 1]
    ELSE [ok |-> FALSE, byte |-> 0]

\* TryFrom<u8> for Op
try_from(value) ==
    IF value + 1 \in DOMAIN Op
    THEN [ok |-> TRUE, op |-> Op[value + 1]]
    ELSE [ok |-> FALSE, op |-> ""]

(* debug.rs *)

\* Chunk::dissassemble_instruction for the opcode op at offset: the offset of
\* the next instruction; constant_instruction for Constant, simple_instruction
\* for the other variants of Op, "Unknown opcode" for anything else
dissassemble_instruction(op, offset) ==
    IF op = "Constant" THEN offset + 2 ELSE offset + 1

-----------------------------------------------------------------------------
(* compiler.rs: code emission *)

(* A source is given by its declarations, each by its syntax tree: the        *)
(* scanner and the token-by-token parse are not part of this layer.  The      *)
(* tree fixes the order in which the parse functions run, and each function   *)
(* below emits what its source emits in that order.  Declaration i of a       *)
(* source stands on line i, so every byte a declaration emits carries line i  *)
(* (emit_byte takes the line of parser.previous).                             *)

NoExpr == [k |-> "none"]

Literal(kind) == [k |-> kind, n |-> 0, s |-> "", l |-> NoExpr, r |-> NoExpr]

NumberLit(n) == [k |-> "number", n |-> n, s |-> "", l |-> NoExpr, r |-> NoExpr]

StringLit(s) == [k |-> "string", n |-> 0, s |-> s, l |-> NoExpr, r |-> NoExpr]

Variable(name) == [k |-> "variable", n |-> 0, s |-> name, l |-> NoExpr, r |-> NoExpr]

Assign(name, e) == [k |-> "assign", n |-> 0, s |-> name, l |-> NoExpr, r |-> e]

Unary(operator, e) == [k |-> "unary", n |-> 0, s |-> operator, l |-> NoExpr, r |-> e]

Binary(operator, a, b) == [k |-> "binary", n |-> 0, s |-> operator, l |-> a, r |-> b]

VarDecl(name, e) == [k |-> "var", name |-> name, e |-> e]

PrintStmt(e) == [k |-> "print", name |-> "", e |-> e]

ExprStmt(e) == [k |-> "expr", name |-> "", e |-> e]

\* std::u8::MAX
U8_MAX == 255

\* Compiler::new with Parser::new: the state the emission threads through
CompilerNew(objs, strs) ==
    [chunk |-> ChunkNew, objects |-> objs, strings |-> strs,
     had_error |-> FALSE, panic_mode |-> FALSE, sites |-> <<>>, decls |-> 0]

\* one call of Parser::error_at, as the log cs.sites keeps it: the message,
\* whether it was written to the error stream, and the declaration it fell in
Site(cs, message, reported) ==
    [message |-> message, reported |-> reported, decl |-> cs.decls]

\* Parser::error_at: nothing is reported in panic mode
error_at(cs, message) ==
    IF cs.panic_mode
    THEN [cs EXCEPT !.sites = Append(@, Site(cs, message, FALSE))]
    ELSE [cs EXCEPT !.panic_mode = TRUE, !.had_error = TRUE,
                    !.sites = Append(@, Site(cs, message, TRUE))]

\* Compiler::emit_byte
emit_byte(cs, byte, line) == [cs EXCEPT !.chunk = write(@, byte, line)]

\* Compiler::emit_op
emit_op(cs, op, line) == emit_byte(cs, OpByte(op), line)

\* make_constant as it would be with a bare `constant as u8`: no capacity
\* check, the index wraps
make_constant_truncating(cs, value) ==
    LET a == add_constant(cs.chunk, value)
    IN  [cs |-> [cs EXCEPT !.chunk = a.chunk], constant |-> a.location % (U8_MAX + 1)]

\* make_constant as it would be if it returned the number of constants instead
\* of the index of the new one
make_constant_off_by_one(cs, value) ==
    LET a == add_constant(cs.chunk, value)
        added == [cs EXCEPT !.chunk = a.chunk]
    IN  IF a.location > U8_MAX
        THEN [cs |-> error_at(added, "Too many constants in one chunk."), constant |-> 0]
        ELSE [cs |-> added, constant |-> a.location + 1]

\* Compiler::make_constant
make_constant(cs, value) ==
    LET a == add_constant(cs.chunk, value)
        added == [cs EXCEPT !.chunk = a.chunk]
    IN  IF a.location > U8_MAX
        THEN [cs |-> error_at(added, "Too many constants in one chunk."), constant |-> 0]
        ELSE [cs |-> added, constant |-> a.location]

\* Compiler::emit_constant
emit_constant(cs, value, line) ==
    LET m == make_constant(cs, value)
    IN  emit_byte(emit_op(m.cs, "Constant", line), OperandByte(m.constant), line)

\* Compiler::identifier_constant
identifier_constant(cs, name) ==
    LET i == intern(cs.objects, cs.strings, name)
    IN  make_constant([cs EXCEPT !.objects = i.objects, !.strings = i.strings],
                      String(i.ref))

\* Compiler::binary, the opcodes of an operator token
BinaryOps(operator) ==
    CASE operator = "!=" -> <<"Equal", "Not">>
      [] operator = "==" -> <<"Equal">>
      [] operator = ">"  -> <<"Greater">>
      [] operator = ">=" -> <<"Less", "Not">>
      [] operator = "<"  -> <<"Less">>
      [] operator = "<=" -> <<"Greater", "Not">>
      [] operator = "+"  -> <<"Add">>
      [] operator = "-"  -> <<"Subtract">>
      [] operator = "*"  -> <<"Multiply">>
      [] operator = "/"  -> <<"Divide">>
      [] OTHER -> <<>>

\* Compiler::unary, the opcode of an operator token
UnaryOps(operator) ==
    CASE operator = "!" -> <<"Not">>
      [] operator = "-" -> <<"Negate">>
      [] OTHER -> <<>>

RECURSIVE emit_ops(_, _, _)
emit_ops(cs, ops, line) ==
    IF ops = <<>> THEN cs
    ELSE emit_ops(emit_op(cs, Head(ops), line), Tail(ops), line)

\* Compiler::expression (parse_precedence with the prefix and infix rules it
\* dispatches to: literal, number, string, variable/named_variable, unary, binary)
RECURSIVE expression(_, _, _)
expression(cs, e, line) ==
    CASE e.k = "nil" -> emit_op(cs, "Nil", line)
      [] e.k = "true" -> emit_op(cs, "True", line)
      [] e.k = "false" -> emit_op(cs, "False", line)
      [] e.k = "number" -> emit_constant(cs, Number(e.n), line)
      [] e.k = "string" ->
            LET i == intern(cs.objects, cs.strings, e.s)
            IN  emit_constant([cs EXCEPT !.objects = i.objects, !.strings = i.strings],
                              String(i.ref), line)
      [] e.k = "variable" ->
            LET arg == identifier_constant(cs, e.s)
            IN  emit_byte(emit_op(arg.cs, "GetGlobal", line),
                          OperandByte(arg.constant), line)
      [] e.k = "assign" ->
            LET arg == identifier_constant(cs, e.s)
                rhs == expression(arg.cs, e.r, line)
            IN  emit_byte(emit_op(rhs, "SetGlobal", line),
                          OperandByte(arg.constant), line)
      [] e.k = "unary" ->
            emit_ops(expression(cs, e.r, line), UnaryOps(e.s), line)
      [] e.k = "binary" ->
            emit_ops(expression(expression(cs, e.l, line), e.r, line),
                     BinaryOps(e.s), line)
      [] OTHER -> cs

\* Compiler::var_declaration with parse_variable and define_variable
var_declaration(cs, d, line) ==
    LET global == identifier_constant(cs, d.name)
        init == IF d.e = NoExpr
                THEN emit_op(global.cs, "Nil", line)
                ELSE expression(global.cs, d.e, line)
    IN  emit_byte(emit_op(init, "DefineGlobal", line),
                  OperandByte(global.constant), line)

\* Compiler::statement with print_statement and expression_statement
statement(cs, d, line) ==
    IF d.k = "print"
    THEN emit_op(expression(cs, d.e, line), "Print", line)
    ELSE emit_op(expression(cs, d.e, line), "Pop", line)

\* Compiler::declaration; synchronize clears panic_mode
declaration(cs, d, line) ==
    LET done == IF d.k = "var" THEN var_declaration(cs, d, line)
                ELSE statement(cs, d, line)
    IN  [done EXCEPT !.panic_mode = FALSE]

RECURSIVE declarations(_, _, _)
declarations(cs, source, i) ==
    IF i > Len(source) THEN cs
    ELSE declarations(declaration(cs, source[i], i), source, i + 1)

\* Compiler::compile with end_compiler/emit_return: the final Return carries
\* the line of the Eof token, the last line of the source
compile(source, objs, strs) ==
    LET last == IF Len(source) = 0 THEN 1 ELSE Len(source)
        cs == emit_op(declarations(CompilerNew(objs, strs), source, 1), "Return", last)
    IN  [ok |-> ~cs.had_error, chunk |-> cs.chunk,
         objects |-> cs.objects, strings |-> cs.strings]

-----------------------------------------------------------------------------
(* compiler.rs: the parser, token by token *)

(* A source reaches the parser as the tokens scan_token returns for it.  The  *)
(* parse functions below thread one record ps through the calls of the        *)
(* source: the fields of Parser (tokens and pos standing for its scanner),    *)
(* the chunk and the allocator the Compiler writes to, and a log of the       *)
(* calls of error_at (sites) with the number of declarations begun (decls).   *)

\* Token { token_type, lexeme, line }
Token(type, lexeme, line) == [type |-> type, lexeme |-> lexeme, line |-> line]

\* Option::None of Parser.previous
NoToken == Token("None", "", 0)

\* Scanner::scan_token for the call number pos + 1: the tokens of the source in
\* order, then Eof for every further call
scan_token(tokens, pos) ==
    IF pos < Len(tokens) THEN tokens[pos + 1]
    ELSE Token("Eof", "", IF tokens = <<>> THEN 1 ELSE tokens[Len(tokens)].line)

\* enum Precedence, `as usize`
Precedence ==
    [None |-> 0, Assignment |-> 1, Or |-> 2, And |-> 3, Equality |-> 4,
     Comparison |-> 5, Term |-> 6, Factor |-> 7, Unary |-> 8, Call |-> 9,
     Primary |-> 10]

\* struct ParseRule
ParseRule(prefix, infix, precedence) ==
    [prefix |-> prefix, infix |-> infix, precedence |-> precedence]

\* make_rules and Compiler::get_rule
get_rule(type) ==
    CASE type = "LeftParen" -> ParseRule("grouping", "None", Precedence.None)
      [] type = "Plus" -> ParseRule("None", "binary", Precedence.Term)
      [] type = "Minus" -> ParseRule("unary", "binary", Precedence.Term)
      [] type \in {"Slash", "Star"} -> ParseRule("None", "binary", Precedence.Factor)
      [] type = "Bang" -> ParseRule("unary", "None", Precedence.None)
      [] type \in {"BangEqual", "EqualEqual"} ->
            ParseRule("None", "binary", Precedence.Equality)
      [] type \in {"Greater", "GreaterEqual", "Less", "LessEqual"} ->
            ParseRule("None", "binary", Precedence.Comparison)
      [] type \in {"True", "False", "Nil"} -> ParseRule("literal", "None", Precedence.None)
      [] type = "Number" -> ParseRule("number", "None", Precedence.None)
      [] type = "String" -> ParseRule("string", "None", Precedence.None)
      [] type = "Identifier" -> ParseRule("variable", "None", Precedence.None)
      [] OTHER -> ParseRule("None", "None", Precedence.None)

\* Parser::new inside Compiler::new: current is primed with the first token,
\* which is not reported when it is an Error token
ParserNew(tokens, objs, strs) ==
    [tokens |-> tokens, pos |-> 1, current |-> scan_token(tokens, 0),
     previous |-> NoToken, had_error |-> FALSE, panic_mode |-> FALSE,
     sites |-> <<>>, decls |-> 0,
     chunk |-> ChunkNew, objects |-> objs, strings |-> strs]

\* Parser::error_at_current
error_at_current(ps, message) == error_at(ps, message)

\* error as it would be if it reported without recording the failure in
\* had_error
error_not_failing(ps, message) ==
    [ps EXCEPT !.sites = Append(@, Site(ps, message, ~ps.panic_mode)),
               !.panic_mode = TRUE]

\* Parser::error
error(ps, message) == error_at(ps, message)

\* Parser::advance, its loop: scan, report and skip Error tokens
RECURSIVE scan_next(_)
scan_next(ps) ==
    LET token == scan_token(ps.tokens, ps.pos)
        read == [ps EXCEPT !.current = token, !.pos = @ + 1]
    IN  IF token.type # "Error" THEN read
        ELSE scan_next(error_at_current(read, token.lexeme))

\* Parser::advance
advance(ps) == scan_next([ps EXCEPT !.previous = ps.current])

\* Parser::consume
consume(ps, type, message) ==
    IF ps.current.type = type THEN advance(ps)
    ELSE error_at_current(ps, message)

\* Compiler::check_token
check_token(ps, type) == ps.current.type = type

\* the line Compiler::emit_byte writes: that of parser.previous
line_of(ps) == ps.previous.line

\* str::parse::<f64> on the lexeme of a Number token
Digits == <<"0", "1", "2", "3", "4", "5", "6", "7", "8", "9">>

parse_f64(lexeme) == (CHOOSE d \in DOMAIN Digits : Digits[d] = lexeme) - 1

\* &lexeme[1..(lexeme.len() - 1)]: the lexeme of a String token without its quotes
strip_quotes(lexeme) ==
    CASE lexeme = "\"a\"" -> "a"
      [] lexeme = "\"b\"" -> "b"
      [] lexeme = "\"\"" -> ""

\* Compiler::binary, what it emits for the operator token
binary_emits(operator_type) ==
    CASE operator_type = "BangEqual" -> <<"Equal", "Not">>
      [] operator_type = "EqualEqual" -> <<"Equal">>
      [] operator_type = "Greater" -> <<"Greater">>
      [] operator_type = "GreaterEqual" -> <<"Less", "Not">>
      [] operator_type = "Less" -> <<"Less">>
      [] operator_type = "LessEqual" -> <<"Greater", "Not">>
      [] operator_type = "Plus" -> <<"Add">>
      [] operator_type = "Minus" -> <<"Subtract">>
      [] operator_type = "Star" -> <<"Multiply">>
      [] operator_type = "Slash" -> <<"Divide">>
      [] OTHER -> <<>>

\* Compiler::unary, what it emits for the operator token
unary_emits(operator_type) ==
    CASE operator_type = "Bang" -> <<"Not">>
      [] operator_type = "Minus" -> <<"Negate">>
      [] OTHER -> <<>>

\* Compiler::number
number(ps) == emit_constant(ps, Number(parse_f64(ps.previous.lexeme)), line_of(ps))

\* Compiler::string
string(ps) ==
    LET i == intern(ps.objects, ps.strings, strip_quotes(ps.previous.lexeme))
    IN  emit_constant([ps EXCEPT !.objects = i.objects, !.strings = i.strings],
                      String(i.ref), line_of(ps))

\* Compiler::literal
literal(ps) ==
    CASE ps.previous.type = "False" -> emit_op(ps, "False", line_of(ps))
      [] ps.previous.type = "Nil" -> emit_op(ps, "Nil", line_of(ps))
      [] ps.previous.type = "True" -> emit_op(ps, "True", line_of(ps))
      [] OTHER -> ps

RECURSIVE parse_precedence(_, _)
RECURSIVE infix_loop(_, _)

\* Compiler::expression
expression_tokens(ps) == parse_precedence(ps, Precedence.Assignment)

\* Compiler::grouping
grouping(ps) == consume(expression_tokens(ps), "RightParen", "Expect ')' after expression.")

\* named_variable as it would be if it took `=` at every precedence, whatever
\* can_assign says
named_variable_at_any_precedence(ps, name, can_assign) ==
    LET arg == identifier_constant(ps, name.lexeme)
    IN  IF check_token(arg.cs, "Equal")
        THEN LET value == expression_tokens(advance(arg.cs))
             IN  emit_byte(emit_op(value, "SetGlobal", line_of(value)),
                           OperandByte(arg.constant), line_of(value))
        ELSE emit_byte(emit_op(arg.cs, "GetGlobal", line_of(arg.cs)),
                       OperandByte(arg.constant), line_of(arg.cs))

\* Compiler::named_variable
named_variable(ps, name, can_assign) ==
    LET arg == identifier_constant(ps, name.lexeme)
    IN  IF can_assign /\ check_token(arg.cs, "Equal")
        THEN LET value == expression_tokens(advance(arg.cs))
             IN  emit_byte(emit_op(value, "SetGlobal", line_of(value)),
                           OperandByte(arg.constant), line_of(value))
        ELSE emit_byte(emit_op(arg.cs, "GetGlobal", line_of(arg.cs)),
                       OperandByte(arg.constant), line_of(arg.cs))

\* Compiler::variable
variable(ps, can_assign) == named_variable(ps, ps.previous, can_assign)

\* Compiler::unary
unary(ps) ==
    LET operator_type == ps.previous.type
        operand == parse_precedence(ps, Precedence.Unary)
    IN  emit_ops(operand, unary_emits(operator_type), line_of(operand))

\* binary as it would be if it parsed its right operand at the operator's own
\* precedence: right-associative
binary_right_associative(ps) ==
    LET operator_type == ps.previous.type
        rule == get_rule(operator_type)
        operand == parse_precedence(ps, rule.precedence)
    IN  emit_ops(operand, binary_emits(operator_type), line_of(operand))

\* Compiler::binary
binary(ps) ==
    LET operator_type == ps.previous.type
        rule == get_rule(operator_type)
        operand == parse_precedence(ps, rule.precedence + 1)
    IN  emit_ops(operand, binary_emits(operator_type), line_of(operand))

\* Compiler::parse_precedence, the call of the prefix rule
prefix_rule(ps, prefix, can_assign) ==
    CASE prefix = "grouping" -> grouping(ps)
      [] prefix = "unary" -> unary(ps)
      [] prefix = "literal" -> literal(ps)
      [] prefix = "number" -> number(ps)
      [] prefix = "string" -> string(ps)
      [] prefix = "variable" -> variable(ps, can_assign)

\* Compiler::parse_precedence, its loop over the infix operators; every rule
\* of a precedence above None has binary as its infix
infix_loop(ps, precedence) ==
    IF precedence > get_rule(ps.current.type).precedence THEN ps
    ELSE infix_loop(binary(advance(ps)), precedence)

\* parse_precedence as it would be if it looked up the prefix rule of
\* parser.previous without the advance that reads the next token
parse_precedence_without_advance(ps, precedence) ==
    LET prefix == get_rule(ps.previous.type).prefix
        can_assign == precedence <= Precedence.Assignment
    IN  IF prefix = "None" THEN error(ps, "Expect expression.")
        ELSE LET operand == infix_loop(prefix_rule(ps, prefix, can_assign),
                                       precedence)
             IN  IF can_assign /\ check_token(operand, "Equal")
                 THEN error(advance(operand), "Invalid assignment target.")
                 ELSE operand

\* Compiler::parse_precedence
parse_precedence(ps, precedence) ==
    LET advanced == advance(ps)
        prefix == get_rule(advanced.previous.type).prefix
        can_assign == precedence <= Precedence.Assignment
    IN  IF prefix = "None" THEN error(advanced, "Expect expression.")
        ELSE LET operand == infix_loop(prefix_rule(advanced, prefix, can_assign),
                                       precedence)
             IN  IF can_assign /\ check_token(operand, "Equal")
                 THEN error(advance(operand), "Invalid assignment target.")
                 ELSE operand

\* Compiler::parse_variable
parse_variable(ps, error_message) ==
    LET name == consume(ps, "Identifier", error_message)
    IN  identifier_constant(name, name.previous.lexeme)

\* Compiler::define_variable
define_variable(ps, global) ==
    emit_byte(emit_op(ps, "DefineGlobal", line_of(ps)), OperandByte(global), line_of(ps))

\* var_declaration as it would be if it emitted nothing for a declaration
\* without initializer
var_declaration_without_nil(ps) ==
    LET global == parse_variable(ps, "Expect variable name.")
        value == IF check_token(global.cs, "Equal")
                 THEN expression_tokens(advance(global.cs))
                 ELSE global.cs
        ended == consume(value, "Semicolon", "Expect ';' after variable declaration.")
    IN  define_variable(ended, global.constant)

\* Compiler::var_declaration, called with `var` consumed
var_declaration_tokens(ps) ==
    LET global == parse_variable(ps, "Expect variable name.")
        value == IF check_token(global.cs, "Equal")
                 THEN expression_tokens(advance(global.cs))
                 ELSE emit_op(global.cs, "Nil", line_of(global.cs))
        ended == consume(value, "Semicolon", "Expect ';' after variable declaration.")
    IN  define_variable(ended, global.constant)

\* print_statement as it would be if it emitted a Pop for the value before
\* the Print that takes it
print_statement_popping_first(ps) ==
    LET ended == consume(expression_tokens(ps), "Semicolon", "Expect ';' after value.")
    IN  emit_op(emit_op(ended, "Pop", line_of(ended)), "Print", line_of(ended))

\* Compiler::print_statement
print_statement(ps) ==
    LET ended == consume(expression_tokens(ps), "Semicolon", "Expect ';' after value.")
    IN  emit_op(ended, "Print", line_of(ended))

\* expression_statement as it would be if it emitted no Pop for the value of
\* its expression
expression_statement_without_pop(ps) ==
    consume(expression_tokens(ps), "Semicolon", "Expect ';' after expression.")

\* Compiler::expression_statement
expression_statement(ps) ==
    LET ended == consume(expression_tokens(ps), "Semicolon", "Expect ';' after expression.")
    IN  emit_op(ended, "Pop", line_of(ended))

\* Compiler::statement
statement_tokens(ps) ==
    IF check_token(ps, "Print") THEN print_statement(advance(ps))
    ELSE expression_statement(ps)

\* Compiler::declaration up to its test of panic_mode
declaration_tokens(ps) ==
    LET begun == [ps EXCEPT !.decls = @ + 1]
    IN  IF check_token(begun, "Var") THEN var_declaration_tokens(advance(begun))
        ELSE statement_tokens(begun)

\* the token types at which Compiler::synchronize stops
StatementStarts == {"Class", "Fun", "Var", "For", "If", "While", "Print", "Return"}

\* Compiler::synchronize, its loop
RECURSIVE skip_tokens(_)
skip_tokens(ps) ==
    IF ps.current.type = "Eof" THEN ps
    ELSE IF ps.previous.type = "Semicolon" THEN ps
    ELSE IF ps.current.type \in StatementStarts THEN ps
    ELSE skip_tokens(advance(ps))

\* synchronize as it would be if it reset the whole error state of the parser,
\* had_error with panic_mode
synchronize_forgets(ps) ==
    skip_tokens([ps EXCEPT !.panic_mode = FALSE, !.had_error = FALSE])

\* Compiler::synchronize
synchronize(ps) == skip_tokens([ps EXCEPT !.panic_mode = FALSE])

\* Compiler::end_compiler after the match_token(Eof) that ends compile's loop
end_compiler(ps) ==
    LET matched == advance(ps)
    IN  emit_op(matched, "Return", line_of(matched))

\* Compiler::compile as one call: declarations until Eof, then end_compiler
RECURSIVE compile_loop(_)
compile_loop(ps) ==
    IF check_token(ps, "Eof") THEN end_compiler(ps)
    ELSE LET body == declaration_tokens(ps)
         IN  compile_loop(IF body.panic_mode THEN synchronize(body) ELSE body)

compile_tokens(tokens, objs, strs) == compile_loop(ParserNew(tokens, objs, strs))

-----------------------------------------------------------------------------
(* scanner.rs: the scanner of main.rs's compile loop                          *)
(*                                                                            *)
(* The source is a sequence of characters, each a one-character string, and   *)
(* offset n of the Rust source is source[n + 1] here.  The scan functions     *)
(* thread one record sc with the fields of Scanner; `panicked` records an     *)
(* unwrap of source.chars().nth(..) past the end, which aborts the call.      *)
(* A function that returns a Token returns [sc, token].                       *)

\* Option::None of source.chars().nth(n)
NoChar == "None"

\* the '\0' of Scanner::peek_next
NulChar == "NUL"

\* source.chars().nth(n)
nth(source, n) == IF n < Len(source) THEN source[n + 1] ELSE NoChar

\* Scanner::new
ScannerNew(source) ==
    [source |-> source, line |-> 1, start |-> 0, current |-> 0, panicked |-> FALSE]

\* unwrap() on Option::None
unwrap_none(sc) == [sc EXCEPT !.panicked = TRUE]

\* struct Token { token_type, start, length, line }; the String of
\* TokenType::Error(String) is the field message, "" for the other variants
Scanner_Token(token_type, message, start, length, line) ==
    [token_type |-> token_type, message |-> message,
     start |-> start, length |-> length, line |-> line]

\* the call did not return
NoScanned == Scanner_Token("None", "", 0, 0, 0)

aborted(sc) == [sc |-> sc, token |-> NoScanned]

\* Scanner::is_alpha
is_alpha(character) ==
    character \in {"a", "b", "c", "d", "e", "f", "g", "h", "i", "j", "k", "l", "m",
                   "n", "o", "p", "q", "r", "s", "t", "u", "v", "w", "x", "y", "z",
                   "A", "B", "C", "D", "E", "F", "G", "H", "I", "J", "K", "L", "M",
                   "N", "O", "P", "Q", "R", "S", "T", "U", "V", "W", "X", "Y", "Z",
                   "_"}

\* Scanner::is_digit
is_digit(character) ==
    character \in {"0", "1", "2", "3", "4", "5", "6", "7", "8", "9"}

\* Scanner::is_at_end
is_at_end(sc) == sc.current = Len(sc.source)

\* Scanner::make_token
make_token(sc, token_type) ==
    [sc |-> sc,
     token |-> Scanner_Token(token_type, "", sc.start, sc.current - sc.start, sc.line)]

\* Scanner::error_token
error_token(sc, message) ==
    [sc |-> sc,
     token |-> Scanner_Token("Error", message, sc.start, sc.current - sc.start, sc.line)]

\* Scanner::advance: the character consumed is nth(current - 1) after the step
Scanner_advance(sc) ==
    IF nth(sc.source, sc.current) = NoChar THEN unwrap_none(sc)
    ELSE [sc EXCEPT !.current = @ + 1]

\* Scanner::peek, NoChar where its unwrap panics
Scanner_peek(sc) == nth(sc.source, sc.current)

\* Scanner::peek_next: it reads offset current, as peek does
peek_next(sc) ==
    IF is_at_end(sc) THEN NulChar ELSE nth(sc.source, sc.current)

\* Scanner::match_character
match_character(sc, expected) ==
    IF is_at_end(sc) THEN [sc |-> sc, matched |-> FALSE]
    ELSE IF nth(sc.source, sc.current) # expected THEN [sc |-> sc, matched |-> FALSE]
    ELSE [sc |-> [sc EXCEPT !.current = @ + 1], matched |-> TRUE]

\* source.chars().skip(start).take(length)
skip_take(source, start, length) ==
    SubSeq(source, start + 1,
           IF start + length <= Len(source) THEN start + length ELSE Len(source))

\* Scanner::check_keyword: the characters compared are those at offset `start`
\* of the source
check_keyword(sc, start, length, rest, token_type) ==
    IF /\ sc.current - sc.start = start + length
       /\ skip_take(sc.source, start, length) = rest
    THEN token_type
    ELSE "Identifier"

\* Scanner::identifier_type
identifier_type(sc) ==
    LET first == nth(sc.source, sc.start)
        second == nth(sc.source, sc.start + 1)
    IN  CASE first = "a" -> check_keyword(sc, 1, 2, <<"n", "d">>, "And")
          [] first = "c" -> check_keyword(sc, 1, 4, <<"l", "a", "s", "s">>, "Class")
          [] first = "e" -> check_keyword(sc, 1, 3, <<"l", "s", "e">>, "Else")
          [] first = "f" ->
                IF sc.current - sc.start > 1
                THEN CASE second = "a" -> check_keyword(sc, 2, 3, <<"l", "s", "e">>, "False")
                       [] second = "o" -> check_keyword(sc, 2, 1, <<"r">>, "For")
                       [] second = "u" -> check_keyword(sc, 2, 1, <<"n">>, "Fun")
                       [] OTHER -> "Identifier"
                ELSE "Identifier"
          [] first = "i" -> check_keyword(sc, 1, 1, <<"f">>, "If")
          [] first = "n" -> check_keyword(sc, 1, 2, <<"i", "l">>, "Nil")
          [] first = "o" -> check_keyword(sc, 1, 1, <<"r">>, "Or")
          [] first = "p" -> check_keyword(sc, 1, 4, <<"r", "i", "n", "t">>, "Print")
          [] first = "r" -> check_keyword(sc, 1, 5, <<"e", "t", "u", "r", "n">>, "Return")
          [] first = "s" -> check_keyword(sc, 1, 4, <<"u", "p", "e", "r">>, "Super")
          [] first = "t" ->
                IF sc.current - sc.start > 1
                THEN CASE second = "h" -> check_keyword(sc, 2, 3, <<"i", "s">>, "This")
                       [] second = "r" -> check_keyword(sc, 2, 1, <<"u", "e">>, "True")
                       [] OTHER -> "Identifier"
                ELSE "Identifier"
          [] first = "v" -> check_keyword(sc, 1, 2, <<"a", "r">>, "Var")
          [] first = "w" -> check_keyword(sc, 1, 4, <<"h", "i", "l", "e">>, "While")
          [] OTHER -> "Identifier"

\* Scanner::identifier, its loop: peek is called before any test of the end
RECURSIVE identifier_loop(_)
identifier_loop(sc) ==
    IF Scanner_peek(sc) = NoChar THEN unwrap_none(sc)
    ELSE IF is_alpha(Scanner_peek(sc)) \/ is_digit(Scanner_peek(sc))
    THEN identifier_loop(Scanner_advance(sc))
    ELSE sc

\* Scanner::identifier
identifier(sc) ==
    LET scanned == identifier_loop(sc)
    IN  IF scanned.panicked THEN aborted(scanned)
        ELSE make_token(scanned, identifier_type(scanned))

\* Scanner::number, each of its loops over digits
RECURSIVE digits_loop(_)
digits_loop(sc) ==
    IF Scanner_peek(sc) = NoChar THEN unwrap_none(sc)
    ELSE IF is_digit(Scanner_peek(sc)) THEN digits_loop(Scanner_advance(sc))
    ELSE sc

\* Scanner::number
Scanner_number(sc) ==
    LET whole == digits_loop(sc)
    IN  IF whole.panicked THEN aborted(whole)
        ELSE IF Scanner_peek(whole) = "." /\ is_digit(peek_next(whole))
        THEN LET fraction == digits_loop(Scanner_advance(whole))
             IN  IF fraction.panicked THEN aborted(fraction)
                 ELSE make_token(fraction, "Number")
        ELSE make_token(whole, "Number")

\* Scanner::skip_whitespace, the loop of its `//` arm
RECURSIVE comment_loop(_)
comment_loop(sc) ==
    IF Scanner_peek(sc) = NoChar THEN unwrap_none(sc)
    ELSE IF Scanner_peek(sc) # "\n" /\ ~is_at_end(sc)
    THEN comment_loop(Scanner_advance(sc))
    ELSE sc

\* Scanner::skip_whitespace: every arm of the match returns, so the loop
\* makes one turn
skip_whitespace(sc) ==
    LET character == Scanner_peek(sc)
    IN  CASE character = NoChar -> unwrap_none(sc)
          [] character \in {" ", "\r", "\t"} -> Scanner_advance(sc)
          [] character = "\n" -> Scanner_advance([sc EXCEPT !.line = @ + 1])
          [] character = "/" ->
                IF peek_next(sc) = "/" THEN comment_loop(sc) ELSE sc
          [] OTHER -> sc

\* Scanner::string, its loop
RECURSIVE string_loop(_)
string_loop(sc) ==
    IF Scanner_peek(sc) = NoChar THEN unwrap_none(sc)
    ELSE IF Scanner_peek(sc) # "\"" /\ ~is_at_end(sc)
    THEN string_loop(Scanner_advance(
            IF Scanner_peek(sc) = "\n" THEN [sc EXCEPT !.line = @ + 1] ELSE sc))
    ELSE sc

\* Scanner::string
Scanner_string(sc) ==
    LET body == string_loop(sc)
    IN  IF body.panicked THEN aborted(body)
        ELSE IF is_at_end(body) THEN error_token(body, "Unterminated String")
        ELSE make_token(Scanner_advance(body), "String")

\* Scanner::scan_token, the arms of `!`, `=`, `<` and `>`: the token made is
\* the value of an expression statement and is dropped, the arm yields ()
operator_arm(sc, two, one) ==
    LET second == match_character(sc, "=")
        dropped == IF second.matched THEN make_token(second.sc, two)
                   ELSE make_token(second.sc, one)
    IN  second.sc

\* Scanner::scan_token
Scanner_scan_token(sc) ==
    LET skipped == skip_whitespace(sc)
        begun == [skipped EXCEPT !.start = skipped.current]
        character == nth(begun.source, begun.current)
        advanced == Scanner_advance(begun)
    IN  IF skipped.panicked THEN aborted(skipped)
        ELSE IF is_at_end(begun) THEN make_token(begun, "Eof")
        ELSE IF is_alpha(character) THEN identifier(advanced)
        ELSE IF is_digit(character) THEN Scanner_number(advanced)
        ELSE CASE character = "(" -> make_token(advanced, "LeftParen")
               [] character = ")" -> make_token(advanced, "RightParen")
               [] character = "{" -> make_token(advanced, "LeftBrace")
               [] character = "}" -> make_token(advanced, "RightBrace")
               [] character = "." -> make_token(advanced, "Dot")
               [] character = "," -> make_token(advanced, "Comma")
               [] character = ";" -> make_token(advanced, "Semicolon")
               [] character = "-" -> make_token(advanced, "Plus")
               [] character = "+" -> make_token(advanced, "Minus")
               [] character = "/" -> make_token(advanced, "Salsh")
               [] character = "*" -> make_token(advanced, "Star")
               [] character = "!" ->
                     error_token(operator_arm(advanced, "BangEqual", "Bang"),
                                 "Unexpected character.")
               [] character = "=" ->
                     error_token(operator_arm(advanced, "EqualEqual", "Equal"),
                                 "Unexpected character.")
               [] character = "<" ->
                     error_token(operator_arm(advanced, "LessEqual", "Less"),
                                 "Unexpected character.")
               [] character = ">" ->
                     error_token(operator_arm(advanced, "GreaterEqual", "Greater"),
                                 "Unexpected character.")
               [] character = "\"" -> Scanner_string(advanced)
               [] OTHER -> error_token(advanced, "Unexpected character.")

-----------------------------------------------------------------------------
(* vm.rs *)

\* const STACK_MAX
STACK_MAX == 256

\* HashMap::new for Runner.globals
EmptyGlobals == [h \in {} |-> Nil]

\* nothing reported yet on the error stream
NoErr == [message |-> "", line |-> 0, stack |-> <<>>]

\* HashMap::insert
insert(map, key, value) ==
    [k \in DOMAIN map \cup {key} |-> IF k = key THEN value ELSE map[k]]

\* Runner::peek; the caller has checked that the slot exists
peek(stk, distance) == stk[Len(stk) - distance]

\* Vec::pop, the stack without its top
popped(stk) == SubSeq(stk, 1, Len(stk) - 1)

\* the opcode the next read_byte of the dispatch loop decodes
Fetch(op) == pc = "run" /\ chunk.code[ip + 1].op = op

\* Runner::read_constant for the operand byte at offset ip + 1
read_constant == chunk.constants[chunk.code[ip + 2].n + 1]

\* Runner::read_string: [ok, ref], not ok being the panic "Constant is not String!"
read_string ==
    IF read_constant.t = "String"
    THEN [ok |-> TRUE, ref |-> read_constant.v]
    ELSE [ok |-> FALSE, ref |-> 0]

\* a panic aborts the process inside the current instruction
Panic ==
    /\ pc' = "dead"
    /\ result' = "Panic"
    /\ UNCHANGED <<stack, objects, strings, chunk, ip, globals, err, budget, issued, parser, scanner>>

\* runtime_error as it would be if run did not return its result: the report is
\* made and the stack cleared, but the dispatch loop goes on
runtime_error_resumes(message, consumed, stk) ==
    /\ err' = [message |-> message, line |-> chunk.lines[consumed], stack |-> stk]
    /\ stack' = <<>>
    /\ ip' = consumed
    /\ result' = "RuntimeError"
    /\ UNCHANGED <<objects, strings, chunk, globals, pc, budget, issued, parser, scanner>>

\* Runner::runtime_error, called after `consumed` bytes were read and with the
\* stack being `stk`: the message and the line of byte instruction_offset() - 1
\* go to the error stream (err.stack keeps the stack as the call found it), the
\* stack is cleared and run returns RuntimeError.
runtime_error(message, consumed, stk) ==
    /\ err' = [message |-> message, line |-> chunk.lines[consumed], stack |-> stk]
    /\ stack' = <<>>
    /\ ip' = consumed
    /\ result' = "RuntimeError"
    /\ pc' = "idle"
    /\ UNCHANGED <<objects, strings, chunk, globals, budget, issued, parser, scanner>>

\* the dispatch loop goes on to the next instruction with the stack `stk`
Continue(consumed, stk) ==
    /\ stack' = stk
    /\ ip' = consumed
    /\ UNCHANGED <<objects, strings, chunk, globals, pc, result, err, budget, issued, parser, scanner>>

\* Runner::push
push(stk, value) == Append(stk, value)

\* VM::interpret after compiler.compile() returned c: CompileError when the
\* compile failed, else Runner::new(stack, allocator, chunk).run()
Execute(c, n) ==
    /\ pc = "idle"
    /\ n <= budget
    /\ objects' = c.objects
    /\ strings' = c.strings
    /\ IF c.ok
       THEN /\ chunk' = c.chunk
            /\ ip' = 0
            /\ globals' = EmptyGlobals
            /\ pc' = "run"
            /\ result' = "None"
       ELSE /\ result' = "CompileError"
            /\ UNCHANGED <<chunk, ip, globals, pc>>
    /\ budget' = budget - n
    /\ UNCHANGED <<stack, err, issued, parser, scanner>>

\* VM::interpret
Interpret(source) == Execute(compile(source, objects, strings), Len(source))

\* the fields of Parser (with the log) in a record of the parse
ParserOf(ps) ==
    [tokens |-> ps.tokens, pos |-> ps.pos, current |-> ps.current,
     previous |-> ps.previous, had_error |-> ps.had_error,
     panic_mode |-> ps.panic_mode, sites |-> ps.sites, decls |-> ps.decls]

\* no compile has begun
NoParser == ParserOf(ParserNew(<<>>, <<>>, EmptyStrings))

\* the record of the compile in progress: its parser, the chunk of this
\* interpret call and the VM's allocator
Parsing ==
    [tokens |-> parser.tokens, pos |-> parser.pos, current |-> parser.current,
     previous |-> parser.previous, had_error |-> parser.had_error,
     panic_mode |-> parser.panic_mode, sites |-> parser.sites, decls |-> parser.decls,
     chunk |-> chunk, objects |-> objects, strings |-> strings]

\* a parse function returned, leaving ps
Parsed(ps) ==
    /\ parser' = ParserOf(ps)
    /\ chunk' = ps.chunk
    /\ objects' = ps.objects
    /\ strings' = ps.strings

\* VM::interpret up to the call of compile: Chunk::new and Compiler::new for
\* a source of n pieces
CompileStart(tokens, n) ==
    /\ pc = "idle"
    /\ n <= budget
    /\ Parsed(ParserNew(tokens, objects, strings))
    /\ pc' = "compile"
    /\ result' = "None"
    /\ budget' = budget - n
    /\ UNCHANGED <<stack, ip, globals, err, issued, scanner>>

\* Compiler::compile, one turn of its loop: declaration up to the test of
\* panic_mode
Declaration ==
    /\ pc = "compile"
    /\ ~check_token(Parsing, "Eof")
    /\ LET body == declaration_tokens(Parsing)
       IN  /\ Parsed(body)
           /\ pc' = IF body.panic_mode THEN "sync" ELSE "compile"
    /\ UNCHANGED <<stack, ip, globals, result, err, budget, issued, scanner>>

\* Compiler::declaration, the call of synchronize that ends it in panic mode
Synchronize ==
    /\ pc = "sync"
    /\ Parsed(synchronize(Parsing))
    /\ pc' = "compile"
    /\ UNCHANGED <<stack, ip, globals, result, err, budget, issued, scanner>>

\* Compiler::compile at Eof: end_compiler and `return !had_error`, then
\* VM::interpret: CompileError, or Runner::new(...).run()
EndCompile ==
    /\ pc = "compile"
    /\ check_token(Parsing, "Eof")
    /\ LET ended == end_compiler(Parsing)
       IN  /\ Parsed(ended)
           /\ IF ended.had_error
              THEN /\ result' = "CompileError"
                   /\ pc' = "idle"
                   /\ UNCHANGED <<ip, globals>>
              ELSE /\ ip' = 0
                   /\ globals' = EmptyGlobals
                   /\ pc' = "run"
                   /\ UNCHANGED result
    /\ UNCHANGED <<stack, err, budget, issued, scanner>>

\* the Scanner of the scan in progress (sc) and the tokens its calls of
\* scan_token returned, in order
NoScanner == [sc |-> ScannerNew(<<>>), returned |-> <<>>]

\* main.rs compile and Compiler::new: Scanner::new(&source)
NewScanner(source) ==
    /\ pc = "idle"
    /\ scanner' = [sc |-> ScannerNew(source), returned |-> <<>>]
    /\ pc' = "scan"
    /\ UNCHANGED <<stack, objects, strings, chunk, ip, globals, result, err, budget,
                   issued, parser>>

\* one call of Scanner::scan_token by the holder of the scanner: the loop of
\* main.rs compile, and Parser::advance, which goes on calling after Eof
ScanToken ==
    /\ pc = "scan"
    /\ Len(scanner.returned) < Len(scanner.sc.source) + MaxEofCalls
    /\ LET call == Scanner_scan_token(scanner.sc)
       IN  IF call.sc.panicked
           THEN /\ scanner' = [scanner EXCEPT !.sc = call.sc]
                /\ pc' = "dead"
                /\ result' = "Panic"
           ELSE /\ scanner' = [sc |-> call.sc,
                               returned |-> Append(scanner.returned, call.token)]
                /\ UNCHANGED <<pc, result>>
    /\ UNCHANGED <<stack, objects, strings, chunk, ip, globals, err, budget, issued,
                   parser>>

\* Op::Constant
OpConstant ==
    /\ Fetch("Constant")
    /\ Continue(ip + 2, push(stack, read_constant))

\* Op::Nil
OpNil ==
    /\ Fetch("Nil")
    /\ Continue(ip + 1, push(stack, Nil))

\* Op::True
OpTrue ==
    /\ Fetch("True")
    /\ Continue(ip + 1, push(stack, Bool(TRUE)))

\* Op::False
OpFalse ==
    /\ Fetch("False")
    /\ Continue(ip + 1, push(stack, Bool(FALSE)))

\* Op::Pop
OpPop ==
    /\ Fetch("Pop")
    /\ IF stack = <<>> THEN Panic
       ELSE Continue(ip + 1, popped(stack))

\* Op::GetGlobal
OpGetGlobal ==
    /\ Fetch("GetGlobal")
    /\ LET reference == read_string
       IN  IF ~reference.ok THEN Panic
           ELSE IF reference.ref \in DOMAIN globals
           THEN Continue(ip + 2, push(stack, globals[reference.ref]))
           ELSE IF ~deref(objects, reference.ref).ok THEN Panic
           ELSE runtime_error("Undefined variable '{name}'.", ip + 2, stack)

\* Op::DefineGlobal
OpDefineGlobal ==
    /\ Fetch("DefineGlobal")
    /\ LET reference == read_string
       IN  IF ~reference.ok \/ stack = <<>> THEN Panic
           ELSE /\ globals' = insert(globals, reference.ref, peek(stack, 0))
                /\ stack' = popped(stack)
                /\ ip' = ip + 2
                /\ UNCHANGED <<objects, strings, chunk, pc, result, err, budget, issued, parser, scanner>>

\* Op::SetGlobal
OpSetGlobal ==
    /\ Fetch("SetGlobal")
    /\ LET reference == read_string
       IN  IF ~reference.ok THEN Panic
           ELSE IF reference.ref \in DOMAIN globals
           THEN IF ~deref(objects, reference.ref).ok THEN Panic
                ELSE runtime_error("Undefined variable '{name}'.", ip + 2, stack)
           ELSE IF stack = <<>> THEN Panic
           ELSE /\ globals' = insert(globals, reference.ref, peek(stack, 0))
                /\ ip' = ip + 2
                /\ UNCHANGED <<stack, objects, strings, chunk, pc, result, err,
                               budget, issued, parser, scanner>>

\* Op::Equal
OpEqual ==
    /\ Fetch("Equal")
    /\ IF Len(stack) < 2 THEN Panic
       ELSE LET a == peek(stack, 0)
                b == peek(stack, 1)
            IN  Continue(ip + 1, push(popped(popped(stack)), Bool(a = b)))

\* |n|
Abs(n) == IF n < 0 THEN -n ELSE n

\* a / b is again an integral double: the model follows a division only then
\* (b is not zero and divides a)
ExactQuotient(a, b) == b # 0 /\ \E q \in -Abs(a)..Abs(a) : q * b = a

\* binary_op!: Value::$result_type(a $op b) for two numbers
binary_op_value(op, a, b) ==
    CASE op = "Greater" -> Bool(a > b)
      [] op = "Less" -> Bool(a < b)
      [] op = "Subtract" -> Number(a - b)
      [] op = "Multiply" -> Number(a * b)
      [] op = "Divide" -> Number(CHOOSE q \in -Abs(a)..Abs(a) : q * b = a)

\* binary_op! as it would be without the two pushes of its failing arm: the
\* error is raised with both operands popped
operands_dropped(rest, a, b) == rest

\* binary_op!: the failed match pushes a, then b, back on what the two pops left
operands_back(rest, a, b) == push(push(rest, a), b)

\* binary_op!
binary_op(op) ==
    IF Len(stack) < 2 THEN Panic
    ELSE LET b == peek(stack, 0)
             a == peek(stack, 1)
             rest == popped(popped(stack))
         IN  IF a.t = "Number" /\ b.t = "Number"
             THEN /\ op = "Divide" => ExactQuotient(a.v, b.v)
                  /\ Continue(ip + 1, push(rest, binary_op_value(op, a.v, b.v)))
             ELSE runtime_error("Operands must be numbers.", ip + 1,
                                operands_back(rest, a, b))

\* Op::Greater
OpGreater ==
    /\ Fetch("Greater")
    /\ binary_op("Greater")

\* Op::Less
OpLess ==
    /\ Fetch("Less")
    /\ binary_op("Less")

\* Op::Add
OpAdd ==
    /\ Fetch("Add")
    /\ IF Len(stack) < 2 THEN Panic
       ELSE LET b == peek(stack, 0)
                a == peek(stack, 1)
                rest == popped(popped(stack))
            IN  IF a.t = "Number" /\ b.t = "Number"
                THEN Continue(ip + 1, push(rest, Number(a.v + b.v)))
                ELSE IF a.t = "String" /\ b.t = "String"
                THEN LET sa == deref(objects, a.v)
                         sb == deref(objects, b.v)
                     IN  IF ~sa.ok \/ ~sb.ok THEN Panic
                         ELSE LET i == intern(objects, strings, sa.obj \o sb.obj)
                              IN  /\ objects' = i.objects
                                  /\ strings' = i.strings
                                  /\ stack' = push(rest, String(i.ref))
                                  /\ ip' = ip + 1
                                  /\ UNCHANGED <<chunk, globals, pc, result, err,
                                                 budget, issued, parser, scanner>>
                ELSE runtime_error("Operands must be numbers.", ip + 1, stack)

\* Op::Subtract
OpSubtract ==
    /\ Fetch("Subtract")
    /\ binary_op("Subtract")

\* Op::Multiply
OpMultiply ==
    /\ Fetch("Multiply")
    /\ binary_op("Multiply")

\* Op::Divide
OpDivide ==
    /\ Fetch("Divide")
    /\ binary_op("Divide")

\* Op::Not
OpNot ==
    /\ Fetch("Not")
    /\ IF stack = <<>> THEN Panic
       ELSE Continue(ip + 1, push(popped(stack), Bool(is_falsy(peek(stack, 0)))))

\* Op::Print: a String is dereferenced for printing
OpPrint ==
    /\ Fetch("Print")
    /\ IF stack = <<>> THEN Panic
       ELSE IF peek(stack, 0).t = "String" /\ ~deref(objects, peek(stack, 0).v).ok
       THEN Panic
       ELSE Continue(ip + 1, popped(stack))

\* Op::Negate
OpNegate ==
    /\ Fetch("Negate")
    /\ IF stack = <<>> THEN Panic
       ELSE IF peek(stack, 0).t = "Number"
       THEN Continue(ip + 1, push(popped(stack), Number(-peek(stack, 0).v)))
       ELSE runtime_error("Operand must be a number", ip + 1, stack)

\* Op::Return: run returns Ok
OpReturn ==
    /\ Fetch("Return")
    /\ ip' = ip + 1
    /\ result' = "Ok"
    /\ pc' = "idle"
    /\ UNCHANGED <<stack, objects, strings, chunk, globals, err, budget, issued, parser, scanner>>

-----------------------------------------------------------------------------
(* velox.rs: the sessions explored *)

\* operand pairs of the arithmetic and comparison operators: two numbers,
\* a non-number on the right, a non-number on the left
OperandPairs ==
    {<<NumberLit(2), NumberLit(1)>>,
     <<NumberLit(1), Literal("nil")>>,
     <<StringLit("a"), NumberLit(2)>>}

\* the declarations a line of input is made of
Stmts ==
    {VarDecl("a", NoExpr), VarDecl("a", NumberLit(1)),
     ExprStmt(Assign("a", NumberLit(2))),
     PrintStmt(Variable("a")), PrintStmt(StringLit("a")), PrintStmt(NumberLit(1)),
     ExprStmt(Binary("+", NumberLit(1), NumberLit(2))),
     ExprStmt(Binary("+", StringLit("a"), StringLit("b"))),
     PrintStmt(Binary("+", StringLit("a"), StringLit("a"))),
     ExprStmt(Binary("+", NumberLit(1), StringLit("a"))),
     ExprStmt(Binary("+", Literal("true"), NumberLit(1))),
     ExprStmt(Binary("==", NumberLit(1), NumberLit(1))),
     ExprStmt(Unary("-", NumberLit(1))), ExprStmt(Unary("-", Literal("nil"))),
     ExprStmt(Unary("-", Literal("true"))), ExprStmt(Unary("!", Literal("false")))}
    \cup {ExprStmt(Binary(o, p[1], p[2])) : o \in {">", "<", "-", "*", "/"},
                                           p \in OperandPairs}

\* Velox::run_prompt: one interpret call per line of standard input
Line ==
    /\ pc = "idle"
    /\ \E n \in 0..budget : \E source \in [1..n -> Stmts] : Interpret(source)

Init ==
    /\ stack = <<>>
    /\ objects = <<>>
    /\ strings = EmptyStrings
    /\ chunk = ChunkNew
    /\ ip = 0
    /\ globals = EmptyGlobals
    /\ pc = "idle"
    /\ result = "None"
    /\ err = NoErr
    /\ budget = MaxStmts
    /\ issued = <<>>
    /\ parser = NoParser
    /\ scanner = NoScanner

Next ==
    \/ Line
    \/ OpConstant \/ OpNil \/ OpTrue \/ OpFalse \/ OpPop
    \/ OpGetGlobal \/ OpDefineGlobal \/ OpSetGlobal
    \/ OpEqual \/ OpGreater \/ OpLess
    \/ OpAdd \/ OpSubtract \/ OpMultiply \/ OpDivide
    \/ OpNot \/ OpPrint \/ OpNegate \/ OpReturn

Spec == Init /\ [][Next]_vars

-----------------------------------------------------------------------------
(* Sessions given token by token: the compile of each line, then its run *)

\* the pieces a line of input is made of, each a sequence of <<type, lexeme>>:
\* statements, statements with an invalid assignment target, and fragments
\* down to single tokens
Pieces ==
    {<<<<"Number", "1">>, <<"Semicolon", ";">>>>,
     <<<<"Identifier", "a">>, <<"Semicolon", ";">>>>,
     <<<<"Var", "var">>, <<"Identifier", "a">>, <<"Semicolon", ";">>>>,
     <<<<"Var", "var">>, <<"Identifier", "a">>, <<"Equal", "=">>, <<"Number", "1">>,
       <<"Semicolon", ";">>>>,
     <<<<"Identifier", "a">>, <<"Equal", "=">>, <<"Number", "2">>, <<"Semicolon", ";">>>>,
     <<<<"Print", "print">>, <<"Identifier", "a">>, <<"Semicolon", ";">>>>,
     <<<<"Print", "print">>, <<"String", "\"a\"">>, <<"Plus", "+">>, <<"String", "\"b\"">>,
       <<"Semicolon", ";">>>>,
     <<<<"Number", "1">>, <<"Plus", "+">>, <<"Number", "2">>, <<"Equal", "=">>,
       <<"Number", "3">>, <<"Semicolon", ";">>>>,
     <<<<"Identifier", "a">>, <<"Plus", "+">>, <<"Identifier", "b">>, <<"Equal", "=">>,
       <<"Identifier", "c">>, <<"Semicolon", ";">>>>,
     <<<<"LeftParen", "(">>, <<"Identifier", "a">>, <<"RightParen", ")">>, <<"Equal", "=">>,
       <<"Number", "3">>, <<"Semicolon", ";">>>>,
     <<<<"LeftParen", "(">>, <<"RightParen", ")">>, <<"Equal", "=">>, <<"Number", "1">>,
       <<"Semicolon", ";">>>>,
     <<<<"Number", "1">>, <<"Error", "Unexpected character.">>, <<"Equal", "=">>,
       <<"Number", "3">>, <<"Semicolon", ";">>>>,
     <<<<"Number", "1">>, <<"Number", "1">>, <<"Error", "Unexpected character.">>,
       <<"Semicolon", ";">>>>,
     <<<<"Var", "var">>, <<"Number", "1">>, <<"Semicolon", ";">>>>,
     <<<<"Minus", "-">>, <<"Identifier", "a">>, <<"Equal", "=">>, <<"Number", "1">>,
       <<"Semicolon", ";">>>>,
     <<<<"Identifier", "a">>, <<"Equal", "=">>, <<"Identifier", "b">>, <<"Equal", "=">>,
       <<"Number", "2">>, <<"Semicolon", ";">>>>,
     <<<<"Print", "print">>, <<"Minus", "-">>, <<"Identifier", "a">>, <<"Plus", "+">>,
       <<"Identifier", "b">>, <<"Semicolon", ";">>>>}
    \cup {<<t>> : t \in {<<"Number", "1">>, <<"Identifier", "a">>, <<"Equal", "=">>,
                         <<"Plus", "+">>, <<"Semicolon", ";">>, <<"Print", "print">>,
                         <<"Var", "var">>, <<"LeftParen", "(">>, <<"RightParen", ")">>,
                         <<"Error", "Unexpected character.">>,
                         <<"Error", "Unterminated string">>}}

\* the tokens of piece number i of a line, all on line i
RECURSIVE TokensOf(_, _)
TokensOf(pieces, i) ==
    IF i > Len(pieces) THEN <<>>
    ELSE [k \in 1..Len(pieces[i]) |-> Token(pieces[i][k][1], pieces[i][k][2], i)]
         \o TokensOf(pieces, i + 1)

\* Velox::run_prompt: one interpret call per line of standard input
LineTokens ==
    /\ pc = "idle"
    /\ \E n \in 0..budget : \E pieces \in [1..n -> Pieces] :
          CompileStart(TokensOf(pieces, 1), n)

\* the one-constant statements a long source repeats: `1;`, `a;`, `var a;`
PoolPieces ==
    {<<<<"Number", "1">>, <<"Semicolon", ";">>>>,
     <<<<"Identifier", "a">>, <<"Semicolon", ";">>>>,
     <<<<"Var", "var">>, <<"Identifier", "a">>, <<"Semicolon", ";">>>>}

\* the numbers of statements of the long sources, around the pool's capacity
PoolSizes == {U8_MAX, U8_MAX + 1, U8_MAX + 2, U8_MAX + 3}

\* n times the statement `piece`, statement number i on line i
Repeated(piece, n) ==
    [k \in 1..(n * Len(piece)) |->
        Token(piece[((k - 1) % Len(piece)) + 1][1],
              piece[((k - 1) % Len(piece)) + 1][2],
              ((k - 1) \div Len(piece)) + 1)]

\* Velox::run_file: one interpret call on the source of a long file, the
\* session's only call
LinePool ==
    /\ pc = "idle"
    /\ budget = MaxStmts
    /\ \E piece \in PoolPieces : \E n \in PoolSizes :
          CompileStart(Repeated(piece, n), budget)

\* the binary operators of the sources `print x op1 y op2 z;`, as
\* <<type, lexeme>>, and the operands x, y, z
BinaryTokens ==
    {<<"Plus", "+">>, <<"Minus", "-">>, <<"Star", "*">>, <<"Slash", "/">>,
     <<"Less", "<">>, <<"EqualEqual", "==">>}

BinaryOperands == {<<"1", "2", "3">>, <<"8", "4", "2">>}

\* the tokens of `print x op1 y op2 z;`, on line 1
BinaryLine(xyz, op1, op2) ==
    <<Token("Print", "print", 1), Token("Number", xyz[1], 1),
      Token(op1[1], op1[2], 1), Token("Number", xyz[2], 1),
      Token(op2[1], op2[2], 1), Token("Number", xyz[3], 1),
      Token("Semicolon", ";", 1)>>

\* Velox::run_file: one interpret call on a file holding one print statement
\* of two binary operators, the session's only call
LineBinary ==
    /\ pc = "idle"
    /\ budget = MaxStmts
    /\ \E xyz \in BinaryOperands : \E op1, op2 \in BinaryTokens :
          CompileStart(BinaryLine(xyz, op1, op2), budget)

NextCompile ==
    \/ LineTokens \/ LinePool \/ LineBinary
    \/ Declaration \/ Synchronize \/ EndCompile
    \/ OpConstant \/ OpNil \/ OpPop
    \/ OpGetGlobal \/ OpDefineGlobal \/ OpSetGlobal
    \/ OpEqual \/ OpLess
    \/ OpAdd \/ OpSubtract \/ OpMultiply \/ OpDivide
    \/ OpPrint \/ OpNegate \/ OpReturn

SpecCompile == Init /\ [][NextCompile]_vars

\* a compile is in progress
Compiling == pc \in {"compile", "sync"}

\* Compiler::compile, a step of it
Compile == Declaration \/ Synchronize \/ EndCompile

\* compile is sequential code: a step of it that can be taken is taken.  This
\* is the weak fairness of Compile, WF_vars(Compile), with ENABLED
\* <<Compile>>_vars written as Compiling: the guards of Declaration,
\* Synchronize and EndCompile cover the states of a compile in progress, and
\* each of their steps changes parser or pc
CompileRunsOn == []<>(~Compiling) \/ []<><<Compile>>_vars

\* the sessions of SpecCompile with the compiler running on; the fairness of
\* EndCompile, the step that returns from compile, is the part of
\* CompileRunsOn for a parser that stands at Eof
SpecCompileLive ==
    /\ Init
    /\ [][NextCompile]_vars
    /\ CompileRunsOn
    /\ WF_vars(EndCompile)

-----------------------------------------------------------------------------
(* The scanner on its own: one source, scanned token by token *)

\* the pieces a source is made of
ScanPieces ==
    \* blanks, a newline, a comment with and without its newline, a lone slash
       {<<" ">>, <<"\t">>, <<"\r">>, <<"\n">>, <<"/", "/", "c">>,
          <<"/", "/", "c", "\n">>, <<"/">>, <<"1", "/", "2">>}
    \* single-character punctuation
    \cup {<<"+">>, <<"-">>, <<"*">>, <<"(">>, <<")">>, <<"{">>, <<"}">>, <<",">>,
          <<".">>, <<";">>}
    \* one-or-two-character operators
    \cup {<<"!">>, <<"=">>, <<"<">>, <<">">>, <<"!", "=">>, <<"=", "=">>,
          <<"<", "=">>, <<">", "=">>}
    \* the 16 keywords, each followed by a blank
    \cup {<<"a", "n", "d", " ">>, <<"c", "l", "a", "s", "s", " ">>,
          <<"e", "l", "s", "e", " ">>, <<"f", "a", "l", "s", "e", " ">>,
          <<"f", "o", "r", " ">>, <<"f", "u", "n", " ">>, <<"i", "f", " ">>,
          <<"n", "i", "l", " ">>, <<"o", "r", " ">>,
          <<"p", "r", "i", "n", "t", " ">>, <<"r", "e", "t", "u", "r", "n", " ">>,
          <<"s", "u", "p", "e", "r", " ">>, <<"t", "h", "i", "s", " ">>,
          <<"t", "r", "u", "e", " ">>, <<"v", "a", "r", " ">>,
          <<"w", "h", "i", "l", "e", " ">>}
    \* identifiers: prefixes and extensions of keywords, and words at the end of the source
    \cup {<<"v", "a", " ">>, <<"v", "a", "r", "s", " ">>, <<"v", "x", "y", " ">>,
          <<"a", " ">>, <<"_", "a", "1", " ">>, <<"f", " ">>, <<"a">>,
          <<"v", "a", "r">>}
    \* numbers
    \cup {<<"1", " ">>, <<"1", "2", " ">>, <<"1", ".", "5", " ">>, <<"1", ".", " ">>,
          <<"1">>}
    \* strings, terminated and not, and an unexpected character
    \cup {<<"\"", "a", "\"">>, <<"\"", "\"">>, <<"\"", "a", "\n", "b", "\"">>,
          <<"\"", "a">>, <<"@">>}

\* the pieces of a source, one after the other
RECURSIVE Joined(_, _)
Joined(pieces, i) ==
    IF i > Len(pieces) THEN <<>> ELSE pieces[i] \o Joined(pieces, i + 1)

\* the sources scanned: up to MaxLexemes pieces, the empty source included
Sources ==
    {Joined(pieces, 1) : pieces \in UNION {[1..n -> ScanPieces] : n \in 0..MaxLexemes}}

NextScan ==
    \/ \E source \in Sources : NewScanner(source)
    \/ ScanToken

SpecScan == Init /\ [][NextScan]_vars

-----------------------------------------------------------------------------
(* The interner on its own: direct calls of ObjAllocator::intern *)

\* the strings interned
HeapNames == {"a", "b", "ab"}

\* one call of ObjAllocator::intern on the VM's allocator, logged with the
\* reference it returned
InternCall(name) ==
    /\ Len(issued) < MaxInterns
    /\ LET i == intern(objects, strings, name)
       IN  /\ objects' = i.objects
           /\ strings' = i.strings
           /\ issued' = Append(issued, [name |-> name, ref |-> i.ref])
    /\ UNCHANGED <<stack, chunk, ip, globals, pc, result, err, budget, parser, scanner>>

NextHeap == \E name \in HeapNames : InternCall(name)

SpecHeap == Init /\ [][NextHeap]_vars

-----------------------------------------------------------------------------
(* Deep expressions: nil == (nil == ( ... == nil)) with n operands *)

RECURSIVE Nested(_)
Nested(n) ==
    IF n <= 1 THEN Literal("nil")
    ELSE Binary("==", Literal("nil"), Nested(n - 1))

\* what compile emits for the one-line source `Nested(n);`, in closed form:
\* n times Nil, n - 1 times Equal, then Pop and Return, all on line 1
DeepChunk(n) ==
    [code |-> [i \in 1..(2 * n + 1) |->
                  IF i <= n THEN OpByte("Nil")
                  ELSE IF i < 2 * n THEN OpByte("Equal")
                  ELSE IF i = 2 * n THEN OpByte("Pop")
                  ELSE OpByte("Return")],
     constants |-> <<>>,
     lines |-> [i \in 1..(2 * n + 1) |-> 1]]

\* the numbers of operands explored, around the stack's capacity
DeepDepths == {STACK_MAX - 1, STACK_MAX, STACK_MAX + 1}

LineDeep ==
    /\ pc = "idle"
    /\ budget > 0
    /\ \E n \in DeepDepths :
          Execute([ok |-> TRUE, chunk |-> DeepChunk(n),
                   objects |-> objects, strings |-> strings], 1)

NextDeep == LineDeep \/ OpNil \/ OpEqual \/ OpPop \/ OpReturn

SpecDeep == Init /\ [][NextDeep]_vars

-----------------------------------------------------------------------------
(* Properties *)

\* the string a reference stands for: the one whose interning returned it
name_of(ref) == CHOOSE s \in DOMAIN strings : strings[s] = ref

\* the name operand of the GetGlobal/SetGlobal instruction about to execute
NameRef == read_string.ref

\* C1: executing SetGlobal for a name that is not in globals returns
\* RuntimeError with the message "Undefined variable '<name>'." and leaves the
\* globals mapping as it was.
C1_SetGlobalUndefinedIsError ==
    [][(Fetch("SetGlobal") /\ NameRef \notin DOMAIN globals)
         => /\ pc' = "idle"
            /\ result' = "RuntimeError"
            /\ err'.message = "Undefined variable '" \o name_of(NameRef) \o "'."
            /\ globals' = globals]_vars

\* C2: executing SetGlobal for a name that is in globals raises no error, sets
\* globals[name] to the value on top of the stack and leaves the stack unchanged.
C2_SetGlobalDefinedAssigns ==
    [][(Fetch("SetGlobal") /\ NameRef \in DOMAIN globals /\ stack # <<>>)
         => /\ pc' = "run"
            /\ globals' = [globals EXCEPT ![NameRef] = peek(stack, 0)]
            /\ stack' = stack]_vars

\* C3: globals survive across interpret calls: every global that the call
\* which returned Ok left defined is defined, with the same value, when the
\* next interpret call on the VM starts to run.
C3_GlobalsSurviveInterpretCalls ==
    [][(pc = "idle" /\ result = "Ok" /\ pc' = "run")
         => \A h \in DOMAIN globals :
               h \in DOMAIN globals' /\ globals'[h] = globals[h]]_vars

\* C4: interning round-trips: every reference intern has returned dereferences
\* to the string it was returned for, also after later intern calls.
C4_DerefOfInternIsTheString ==
    \A i \in DOMAIN issued :
        deref(objects, issued[i].ref) = [ok |-> TRUE, obj |-> issued[i].name]

\* C5: after any sequence of intern calls, two references returned by intern
\* are equal if and only if the strings interned were equal, and the heap holds
\* one object per distinct string (interning a present string allocates nothing).
C5_InternRefsEqualIffStringsEqual ==
    /\ \A i, j \in DOMAIN issued :
          (issued[i].ref = issued[j].ref) <=> (issued[i].name = issued[j].name)
    /\ Len(objects) = Cardinality({issued[i].name : i \in DOMAIN issued})

\* C5 witness: a string was interned twice, with another string in between
C5_Witness ==
    \E i, j, k \in DOMAIN issued :
        /\ i < j /\ j < k
        /\ issued[i].name = issued[k].name
        /\ issued[j].name # issued[i].name

\* C6: the value stack never holds more than STACK_MAX (256) values.
C6_StackNeverExceedsStackMax == Len(stack) <= STACK_MAX

\* C7: GetGlobal on a name present in globals pushes its value and continues;
\* on an absent name it returns RuntimeError with the message
\* "Undefined variable '<name>'.", <name> being the variable's name.
C7_GetGlobalPushesOrReportsName ==
    [][Fetch("GetGlobal")
         => IF NameRef \in DOMAIN globals
            THEN pc' = "run" /\ stack' = Append(stack, globals[NameRef])
            ELSE /\ pc' = "idle"
                 /\ result' = "RuntimeError"
                 /\ err'.message = "Undefined variable '" \o name_of(NameRef) \o "'."]_vars

\* C8: Add replaces two Numbers by their sum, two Strings by the String of the
\* interned concatenation of their contents, and for any other operands returns
\* RuntimeError "Operands must be two numbers or two strings."
C8_AddNumbersStringsOrError ==
    [][(Fetch("Add") /\ Len(stack) >= 2)
         => LET b == stack[Len(stack)]
                a == stack[Len(stack) - 1]
                rest == SubSeq(stack, 1, Len(stack) - 2)
            IN  IF a.t = "Number" /\ b.t = "Number"
                THEN pc' = "run" /\ stack' = Append(rest, Number(a.v + b.v))
                ELSE IF a.t = "String" /\ b.t = "String"
                THEN LET text == name_of(a.v) \o name_of(b.v)
                     IN  /\ pc' = "run"
                         /\ text \in DOMAIN strings'
                         /\ stack' = Append(rest, String(strings'[text]))
                ELSE /\ pc' = "idle"
                     /\ result' = "RuntimeError"
                     /\ err'.message = "Operands must be two numbers or two strings."]_vars

\* the opcodes of binary_op!
NumericOps == {"Subtract", "Multiply", "Divide", "Greater", "Less"}

\* C9: Subtract, Multiply, Divide, Greater and Less on two Numbers pop both and
\* push the one result, the left operand being the lower slot; when an operand
\* is not a Number they return RuntimeError "Operands must be numbers.", raised
\* with both operands on the stack in their original order and nothing pushed.
C9_BinaryOpResultOrErrorWithOperands ==
    [][\A op \in NumericOps :
         (Fetch(op) /\ Len(stack) >= 2)
           => LET b == stack[Len(stack)]
                  a == stack[Len(stack) - 1]
                  rest == SubSeq(stack, 1, Len(stack) - 2)
              IN  IF a.t = "Number" /\ b.t = "Number"
                  THEN /\ pc' = "run"
                       /\ Len(stack') = Len(stack) - 1
                       /\ SubSeq(stack', 1, Len(stack') - 1) = rest
                       /\ LET r == stack'[Len(stack')]
                          IN  CASE op = "Subtract" -> r.t = "Number" /\ r.v + b.v = a.v
                                [] op = "Multiply" -> r.t = "Number" /\ r.v = a.v * b.v
                                [] op = "Divide" -> r.t = "Number" /\ r.v * b.v = a.v
                                [] op = "Greater" -> r.t = "Bool" /\ (r.v = 1 <=> a.v > b.v)
                                [] op = "Less" -> r.t = "Bool" /\ (r.v = 1 <=> a.v < b.v)
                  ELSE /\ pc' = "idle"
                       /\ result' = "RuntimeError"
                       /\ err'.message = "Operands must be numbers."
                       /\ err'.stack = stack]_vars

\* C9 witness: a binary_op! opcode has just raised its error with two operands
\* on the stack, one of them not a Number
C9_Witness ==
    /\ pc = "idle"
    /\ result = "RuntimeError"
    /\ ip > 0
    /\ chunk.code[ip].op \in NumericOps
    /\ Len(err.stack) = 2
    /\ \E i \in 1..2 : err.stack[i].t # "Number"

\* C10: Negate replaces a Number on top of the stack by its negation, the depth
\* unchanged; on any other value it returns RuntimeError with the message
\* "Operand must be a number." and the line of the byte just consumed.
C10_NegateNumberOrError ==
    [][(Fetch("Negate") /\ stack # <<>>)
         => IF peek(stack, 0).t = "Number"
            THEN /\ pc' = "run"
                 /\ stack' = [stack EXCEPT ![Len(stack)] = Number(-peek(stack, 0).v)]
            ELSE /\ pc' = "idle"
                 /\ result' = "RuntimeError"
                 /\ err'.message = "Operand must be a number."
                 /\ err'.line = chunk.lines[ip + 1]]_vars

\* the opcodes whose execution prints or changes globals
EffectOps == {"Print", "DefineGlobal", "SetGlobal"}

\* C11: a runtime error is terminal and reported once: the step that raises it
\* empties the stack, makes run return RuntimeError and leaves globals alone;
\* after it no instruction of the chunk executes (ip, stack, globals and the
\* report stay as they are) until a new interpret call starts to run.
C11_RuntimeErrorIsTerminal ==
    [][/\ (pc = "run" /\ result' = "RuntimeError")
            => (stack' = <<>> /\ pc' = "idle" /\ globals' = globals)
       /\ (pc = "idle" /\ result = "RuntimeError")
            => \/ pc' = "run" /\ ip' = 0
               \/ /\ pc' = "idle"
                  /\ ip' = ip /\ stack' = stack /\ globals' = globals /\ err' = err]_vars

\* C11 witness: an instruction raised a runtime error with values on the stack,
\* and a printing or global-changing instruction of the
\* chunk lies after it
C11_Witness ==
    /\ pc = "idle"
    /\ result = "RuntimeError"
    /\ stack = <<>>
    /\ err.stack # <<>>
    /\ \E i \in (ip + 1)..Len(chunk.code) : chunk.code[i].op \in EffectOps

\* an error of the compile was written to the error stream
Reported(p) == \E i \in DOMAIN p.sites : p.sites[i].reported

C13_OneReportPerDeclaration ==
    /\ \A i, j \in DOMAIN parser.sites :
          (/\ parser.sites[i].reported /\ parser.sites[j].reported
           /\ parser.sites[i].decl = parser.sites[j].decl) => i = j
    /\ \A i \in DOMAIN parser.sites :
          (i = 1 \/ parser.sites[i - 1].decl # parser.sites[i].decl)
             => parser.sites[i].reported

\* the report of an `=` after something that is no assignment target
InvalidTarget == "Invalid assignment target."

\* the calls of error for an invalid assignment target, in the log
InvalidSites == {i \in DOMAIN parser.sites : parser.sites[i].message = InvalidTarget}

\* the `=` tokens the parser has consumed
EqualsConsumed ==
    {k \in DOMAIN parser.tokens : k < parser.pos /\ parser.tokens[k].type = "Equal"}

\* the SetGlobal instructions of the chunk
SetGlobals == {i \in DOMAIN chunk.code : chunk.code[i].op = "SetGlobal"}

Operands == SelectSeq(chunk.code, LAMBDA byte : byte.op = "")

\* C15: constant-pool capacity: every constant has one operand byte, a constant
\* whose index would exceed 255 gets the operand 0 (besides the first constant's
\* 0 there is one 0 per constant beyond the 256th) and makes the compile fail,
\* so a chunk that is run has at most 256 constants.
C15_ConstantPoolCapacity ==
    /\ \A j \in DOMAIN Operands : Operands[j].n <= U8_MAX
    /\ Len(Operands) = Len(chunk.constants)
    /\ Len(chunk.constants) > U8_MAX + 1
          => /\ Cardinality({j \in DOMAIN Operands : Operands[j].n = 0})
                  = 1 + (Len(chunk.constants) - (U8_MAX + 1))
             /\ parser.had_error
             /\ pc # "run"
             /\ pc = "idle" => result = "CompileError"
    /\ pc = "run" => Len(chunk.constants) <= U8_MAX + 1

\* C15 witness: a compile that added a 257th constant has returned
C15_Witness ==
    /\ pc = "idle"
    /\ result = "CompileError"
    /\ Len(chunk.constants) > U8_MAX + 1

\* s is a prefix of t
IsPrefix(s, t) == Len(s) <= Len(t) /\ SubSeq(t, 1, Len(s)) = s

\* a value and a byte, as arguments of add_constant and write
ProbeValues == {Nil, Number(1), String(1)}

\* C16: in every state of a compile len(code) = len(lines) and the chunk is
\* append-only: each step of the compile, and each call of write and
\* add_constant on the chunk, keeps every code byte, line and constant in place,
\* and add_constant returns the index at which the value was stored.
C16_ChunkAppendOnly ==
    [][/\ Len(chunk.code) = Len(chunk.lines)
       /\ pc \in {"compile", "sync"}
            => /\ IsPrefix(chunk.code, chunk'.code)
               /\ IsPrefix(chunk.lines, chunk'.lines)
               /\ IsPrefix(chunk.constants, chunk'.constants)
               /\ Len(chunk'.code) = Len(chunk'.lines)
               /\ \A value \in ProbeValues :
                     LET a == add_constant(chunk, value)
                         w == write(a.chunk, OpByte("Nil"), 1)
                     IN  /\ a.chunk.constants
                              = chunk.constants \o <<value>>
                         /\ a.chunk.code = chunk.code /\ a.chunk.lines = chunk.lines
                         /\ a.location + 1 \in DOMAIN a.chunk.constants
                         /\ a.chunk.constants[a.location + 1] = value
                         /\ w.code = chunk.code \o <<OpByte("Nil")>>
                         /\ w.lines = chunk.lines \o <<1>>
                         /\ w.constants = a.chunk.constants]_vars

\* C16 witness: a compile is under way with code and constants written by
\* an earlier declaration
C16_Witness ==
    /\ pc = "compile"
    /\ parser.decls >= 1
    /\ Len(chunk.code) >= 3
    /\ Len(chunk.constants) >= 1
    /\ parser.current.type # "Eof"

\* the chunk in `chunk` was compiled successfully
Compiled == pc = "run" \/ (pc = "idle" /\ result \in {"Ok", "RuntimeError"})

\* the opcodes followed by an operand byte, and those whose operand names a global
ConstantOps == {"Constant", "GetGlobal", "SetGlobal", "DefineGlobal"}

GlobalOps == {"GetGlobal", "SetGlobal", "DefineGlobal"}

\* C17: in every successfully compiled chunk the operand of every Constant,
\* GetGlobal, SetGlobal and DefineGlobal is an index into the constants, and
\* the constant a GetGlobal, SetGlobal or DefineGlobal names is a String.
C17_OperandsAreValidConstants ==
    Compiled
      => \A i \in DOMAIN chunk.code :
            chunk.code[i].op \in ConstantOps
              => /\ i + 1 \in DOMAIN chunk.code
                 /\ chunk.code[i + 1].op = ""
                 /\ chunk.code[i + 1].n + 1 \in DOMAIN chunk.constants
                 /\ chunk.code[i].op \in GlobalOps
                      => chunk.constants[chunk.code[i + 1].n + 1].t = "String"

\* C17 witness: a compiled chunk holds a Constant and a global instruction
C17_Witness ==
    /\ Compiled
    /\ \E i \in DOMAIN chunk.code : chunk.code[i].op = "Constant"
    /\ \E i \in DOMAIN chunk.code : chunk.code[i].op \in GlobalOps

\* a compile of a line has returned and its chunk is in `chunk`
CompileReturned == pc = "run" \/ (pc = "idle" /\ result # "None")

\* the sources compiled again: those of the lines (the long files apart)
MaxRecompiled == 6 * MaxStmts

\* C18: compilation is deterministic: compiling the source of the last
\* interpret call again on the same VM, its heap holding what that compile and
\* the run since have interned, gives a chunk with the same code, lines and
\* constants (same values, same handles, same order).
C18_CompileIsDeterministic ==
    (CompileReturned /\ Len(parser.tokens) <= MaxRecompiled)
      => compile_tokens(parser.tokens, objects, strings).chunk = chunk

\* C18 witness: the chunk of the last compile has a String constant and the
\* heap holds more strings than the chunk names
C18_Witness ==
    /\ CompileReturned
    /\ \E i \in DOMAIN chunk.constants : chunk.constants[i].t = "String"
    /\ Len(objects) > Cardinality({chunk.constants[i].v : i \in DOMAIN chunk.constants})

\* C19: synchronize stops at a synchronization point and is idempotent: when
\* it returns panic_mode is false and the current token is Eof, or the previous
\* token is `;`, or the current token starts a statement; a second call right
\* after it consumes no token and changes nothing of the parser.
C19_SynchronizeIsIdempotent ==
    [][pc = "sync"
         => /\ ~parser'.panic_mode
            /\ \/ parser'.current.type = "Eof"
               \/ parser'.previous.type = "Semicolon"
               \/ parser'.current.type \in StatementStarts
            /\ ParserOf(synchronize(parser')) = parser']_vars

\* Runner::run, the bytes an instruction takes: the opcode and, where the
\* opcode reads a constant, its operand
instruction_length(op) == IF op \in ConstantOps THEN 2 ELSE 1

\* C20: opcode encoding round-trips for every opcode of a compiled chunk:
\* the opcode has a byte, decoding that byte yields the opcode, and the
\* disassembler steps over the instruction by its length (2 bytes for
\* Constant, GetGlobal, SetGlobal, DefineGlobal, 1 otherwise), so it decodes no
\* unknown opcode and no operand byte.
C20_OpcodesRoundTrip ==
    Compiled
      => \A i \in DOMAIN chunk.code :
            chunk.code[i].op # ""
              => /\ into_u8(chunk.code[i].op).ok
                 /\ try_from(into_u8(chunk.code[i].op).byte)
                      = [ok |-> TRUE, op |-> chunk.code[i].op]
                 /\ dissassemble_instruction(chunk.code[i].op, i - 1)
                      = i - 1 + instruction_length(chunk.code[i].op)

-----------------------------------------------------------------------------
(* Properties of the scanner *)

\* the characters a token covers
Lexeme(token) ==
    SubSeq(scanner.sc.source, token.start + 1, token.start + token.length)

\* the first character of a token, NoChar for an empty one
FirstChar(token) ==
    IF token.length = 0 THEN NoChar ELSE nth(scanner.sc.source, token.start)

Whitespace == {" ", "\r", "\t", "\n"}

\* the newline characters among the first n characters of the source
Newlines(n) == Cardinality({k \in 1..n : scanner.sc.source[k] = "\n"})

\* the source has no string literal
QuoteFree == \A k \in DOMAIN scanner.sc.source : scanner.sc.source[k] # "\""

\* C21: once the scanner has reached the end of the source every call of
\* scan_token returns Eof: after an Eof token only Eof tokens are returned and
\* no call fails, and on a source of nothing but whitespace (the empty source
\* included) no call fails and every token returned is Eof
C21_EofForever ==
    /\ \A i, j \in DOMAIN scanner.returned :
          (i < j /\ scanner.returned[i].token_type = "Eof")
             => scanner.returned[j].token_type = "Eof"
    /\ scanner.sc.panicked
          => \A i \in DOMAIN scanner.returned : scanner.returned[i].token_type # "Eof"
    /\ (\A k \in DOMAIN scanner.sc.source : scanner.sc.source[k] \in Whitespace)
          => /\ ~scanner.sc.panicked
             /\ \A i \in DOMAIN scanner.returned :
                   scanner.returned[i].token_type = "Eof"

\* offset p - 1 of the source is inside a `//` comment
InComment(p) ==
    \E q \in 1..(p - 1) :
       /\ scanner.sc.source[q] = "/"
       /\ scanner.sc.source[q + 1] = "/"
       /\ \A k \in q..p : scanner.sc.source[k] # "\n"

\* C22: whitespace and `//` comments are skipped, however many there are: no
\* token begins at a whitespace character or inside a comment, and the line of
\* a token is 1 plus the number of newlines before it (sources without string
\* literals, whose newlines are C27's)
C22_WhitespaceAndCommentsSkipped ==
    QuoteFree =>
       \A i \in DOMAIN scanner.returned :
          LET token == scanner.returned[i]
          IN  /\ FirstChar(token) \notin Whitespace
              /\ token.length > 0 => ~InComment(token.start + 1)
              /\ token.line = 1 + Newlines(token.start)

\* source[p] is the first `/` of a source without strings and is not followed
\* by another `/`
LoneSlash(p) ==
    /\ scanner.sc.source[p] = "/"
    /\ nth(scanner.sc.source, p) # "/"
    /\ \A q \in 1..(p - 1) : scanner.sc.source[q] \notin {"/", "\""}

\* C23: `+` scans to Plus, `-` to Minus, `*` to Star, and a `/` not followed by
\* `/` to the Slash token (Salsh in the enum of scanner.rs): once the scanner
\* is past it, the call has not failed and a one-character Slash token was
\* returned for it
C23_PunctuationKinds ==
    /\ \A i \in DOMAIN scanner.returned :
          LET token == scanner.returned[i]
          IN  /\ Lexeme(token) = <<"+">> => token.token_type = "Plus"
              /\ Lexeme(token) = <<"-">> => token.token_type = "Minus"
              /\ Lexeme(token) = <<"*">> => token.token_type = "Star"
    /\ \A p \in DOMAIN scanner.sc.source :
          (LoneSlash(p) /\ scanner.sc.current >= p)
             => /\ ~scanner.sc.panicked
                /\ \E i \in DOMAIN scanner.returned :
                      /\ scanner.returned[i].start = p - 1
                      /\ scanner.returned[i].length = 1
                      /\ scanner.returned[i].token_type \in {"Slash", "Salsh"}

\* the kind of an operator lexeme
OperatorKind(lexeme) ==
    CASE lexeme = <<"!">> -> "Bang"
      [] lexeme = <<"!", "=">> -> "BangEqual"
      [] lexeme = <<"=">> -> "Equal"
      [] lexeme = <<"=", "=">> -> "EqualEqual"
      [] lexeme = <<"<">> -> "Less"
      [] lexeme = <<"<", "=">> -> "LessEqual"
      [] lexeme = <<">">> -> "Greater"
      [] lexeme = <<">", "=">> -> "GreaterEqual"
      [] OTHER -> "None"

\* C24: a token that begins with `!`, `=`, `<` or `>` is never an Error token,
\* it takes a following `=` with it (longest match), and its kind is that of
\* its lexeme
C24_OperatorsLongestMatch ==
    \A i \in DOMAIN scanner.returned :
       LET token == scanner.returned[i]
       IN  FirstChar(token) \in {"!", "=", "<", ">"}
              => /\ token.token_type # "Error"
                 /\ token.length = (IF nth(scanner.sc.source, token.start + 1) = "="
                                    THEN 2 ELSE 1)
                 /\ token.token_type = OperatorKind(Lexeme(token))

\* the 16 keywords with their kinds
Keywords ==
    {<<<<"a", "n", "d">>, "And">>,
     <<<<"c", "l", "a", "s", "s">>, "Class">>,
     <<<<"e", "l", "s", "e">>, "Else">>,
     <<<<"f", "a", "l", "s", "e">>, "False">>,
     <<<<"f", "o", "r">>, "For">>,
     <<<<"f", "u", "n">>, "Fun">>,
     <<<<"i", "f">>, "If">>,
     <<<<"n", "i", "l">>, "Nil">>,
     <<<<"o", "r">>, "Or">>,
     <<<<"p", "r", "i", "n", "t">>, "Print">>,
     <<<<"r", "e", "t", "u", "r", "n">>, "Return">>,
     <<<<"s", "u", "p", "e", "r">>, "Super">>,
     <<<<"t", "h", "i", "s">>, "This">>,
     <<<<"t", "r", "u", "e">>, "True">>,
     <<<<"v", "a", "r">>, "Var">>,
     <<<<"w", "h", "i", "l", "e">>, "While">>}

\* the kind of an identifier-shaped lexeme
KeywordKind(lexeme) ==
    IF \E k \in Keywords : k[1] = lexeme
    THEN (CHOOSE k \in Keywords : k[1] = lexeme)[2]
    ELSE "Identifier"

\* C25: a token that begins with a letter or `_` has the kind of the keyword
\* its lexeme is, wherever it stands in the source, and is an Identifier when
\* its lexeme is no keyword
C25_KeywordsAnywhere ==
    \A i \in DOMAIN scanner.returned :
       LET token == scanner.returned[i]
       IN  is_alpha(FirstChar(token))
              => token.token_type = KeywordKind(Lexeme(token))

\* C26: a Number token takes a `.` that a digit follows, with the digits after
\* it, and never ends in a `.`
C26_FractionInOneToken ==
    \A i \in DOMAIN scanner.returned :
       LET token == scanner.returned[i]
           after == token.start + token.length
       IN  token.token_type = "Number"
              => /\ ~(/\ nth(scanner.sc.source, after) = "."
                      /\ is_digit(nth(scanner.sc.source, after + 1)))
                 /\ nth(scanner.sc.source, after - 1) # "."

\* source[p] opens a string that is never closed: it is the only `"` of the
\* source and no comment begins before it
Unterminated(p) ==
    /\ scanner.sc.source[p] = "\""
    /\ \A q \in DOMAIN scanner.sc.source :
          /\ q # p => scanner.sc.source[q] # "\""
          /\ q < p => scanner.sc.source[q] # "/"

\* C27: once the scanner is past the opening `"` of an unterminated string the
\* call has not failed, it returned an Error token with the message
\* "Unterminated string", and a token returned after it is Eof; a String token
\* has both quotes in its lexeme, and the one that begins the source is on
\* line 1 plus the newlines inside it
C27_StringTokens ==
    /\ \A p \in DOMAIN scanner.sc.source :
          (Unterminated(p) /\ scanner.sc.current >= p)
             => /\ ~scanner.sc.panicked
                /\ \E i \in DOMAIN scanner.returned :
                      /\ scanner.returned[i].start = p - 1
                      /\ scanner.returned[i].token_type = "Error"
                      /\ scanner.returned[i].message = "Unterminated string"
                      /\ \A j \in DOMAIN scanner.returned :
                            j > i => scanner.returned[j].token_type = "Eof"
    /\ \A i \in DOMAIN scanner.returned :
          LET token == scanner.returned[i]
          IN  token.token_type = "String"
                 => /\ token.length >= 2
                    /\ Lexeme(token)[1] = "\""
                    /\ Lexeme(token)[token.length] = "\""
                    /\ token.start = 0
                          => token.line = 1 + Newlines(token.length)

-----------------------------------------------------------------------------
(* Properties of assignment, precedence and declarations *)

\* the tokens as the parser sees them: advance drops the Error tokens
Seen == SelectSeq(parser.tokens, LAMBDA token : token.type # "Error")

\* the tokens after which an expression is parsed at Assignment precedence:
\* the end of a statement, `print`, `(` and `=`
ExpressionOpeners == {"Semicolon", "Print", "LeftParen", "Equal"}

\* the identifiers of the tokens `seen` that begin an expression parsed at
\* Assignment precedence and that `=` follows
AssignSites(seen) ==
    {k \in DOMAIN seen :
        /\ seen[k].type = "Identifier"
        /\ k < Len(seen)
        /\ seen[k + 1].type = "Equal"
        /\ k = 1 \/ seen[k - 1].type \in ExpressionOpeners}

\* the other identifiers that are read as variables: all but the names
\* declared with `var`
GetSites(seen) ==
    {k \in DOMAIN seen :
        /\ seen[k].type = "Identifier"
        /\ ~(/\ k < Len(seen)
             /\ seen[k + 1].type = "Equal"
             /\ k = 1 \/ seen[k - 1].type \in ExpressionOpeners)
        /\ k = 1 \/ seen[k - 1].type # "Var"}

\* the literals
LiteralSites(seen) == {k \in DOMAIN seen : seen[k].type \in {"Number", "String"}}

\* the instructions of the chunk with the opcode op
OpSites(op) == {i \in DOMAIN chunk.code : chunk.code[i].op = op}

\* the name operand of the instruction at code[i] is the string `lexeme`
Names(i, lexeme) ==
    /\ lexeme \in DOMAIN strings
    /\ chunk.constants[chunk.code[i + 1].n + 1] = String(strings[lexeme])

IsBinaryLine ==
    /\ Len(parser.tokens) = 7
    /\ parser.tokens[1].type = "Print"
    /\ \A k \in {2, 4, 6} : parser.tokens[k].type = "Number"
    /\ \A k \in {3, 5} : \E op \in BinaryTokens : parser.tokens[k].type = op[1]
    /\ parser.tokens[7].type = "Semicolon"

\* the instruction a binary operator stands for
OperatorOp(type) ==
    CASE type = "Plus" -> "Add"
      [] type = "Minus" -> "Subtract"
      [] type = "Star" -> "Multiply"
      [] type = "Slash" -> "Divide"
      [] type = "Less" -> "Less"
      [] type = "EqualEqual" -> "Equal"

\* x op y for an arithmetic operator (a quotient where the division is exact)
Applied(type, x, y) ==
    CASE type = "Plus" -> x + y
      [] type = "Minus" -> x - y
      [] type = "Star" -> x * y
      [] type = "Slash" -> IF y = 0 THEN 0 ELSE x \div y

\* the opcodes of the chunk in order, operand bytes left out
Opcodes ==
    LET ops == SelectSeq(chunk.code, LAMBDA byte : byte.op # "")
    IN  [i \in DOMAIN ops |-> ops[i].op]

\* the lexemes of the source of the last compile
Lexemes == [k \in DOMAIN parser.tokens |-> parser.tokens[k].lexeme]

DefinesSoFar == {i \in OpSites("DefineGlobal") : i <= ip + 1}

\* the `var` tokens of the source, in order
VarSites == SelectSeq([k \in DOMAIN parser.tokens |-> k],
                      LAMBDA k : parser.tokens[k].type = "Var")

\* the name declared by the declaration whose DefineGlobal is about to execute
DeclaredName == parser.tokens[VarSites[Cardinality(DefinesSoFar)] + 1].lexeme

-----------------------------------------------------------------------------
(* The value stack across statements and interpret calls *)

\* the run stands between two statements: at the start of the chunk, or just
\* past the Pop, Print or DefineGlobal that ends a statement
BetweenStatements ==
    /\ pc = "run"
    /\ \/ ip = 0
       \/ chunk.code[ip].op \in {"Pop", "Print"}
       \/ (ip >= 2 /\ chunk.code[ip - 1].op = "DefineGlobal")

\* C31: stack balance: the VM's value stack is empty whenever no run is in
\* progress, that is before the first interpret call, during every compile
\* and after every interpret call, whatever its result (Ok, CompileError,
\* RuntimeError), and within a run it is empty between any two statements
\* and at the final Return: every statement leaves the stack at the depth it
\* had before the statement.
C31_StackBalanced ==
    /\ pc \in {"idle", "compile", "sync"} => stack = <<>>
    /\ BetweenStatements => stack = <<>>
    /\ Fetch("Return") => stack = <<>>

\* C31 witness: an interpret call returned RuntimeError from a stack that
\* held values when the error was raised, in a statement after the first of
\* its source; the stack is empty again
C31_Witness ==
    /\ pc = "idle"
    /\ result = "RuntimeError"
    /\ chunk.lines[ip] > 1
    /\ err.stack # <<>>
    /\ stack = <<>>

-----------------------------------------------------------------------------
(* The value stack under the instructions that take from it *)

\* Runner::run, the number of values an instruction takes from the stack by
\* pop() or reads by peek(d): d + 1 for the deepest peek
operands_taken(op) ==
    CASE op \in {"Equal", "Greater", "Less", "Add", "Subtract", "Multiply", "Divide"} -> 2
      [] op \in {"Pop", "DefineGlobal", "SetGlobal", "Not", "Print", "Negate"} -> 1
      [] OTHER -> 0

\* C32: no stack underflow: while a successfully compiled chunk runs, the
\* stack holds at least the values the next instruction pops or peeks (two for
\* Equal, the comparisons and the arithmetic, one for Pop, DefineGlobal,
\* SetGlobal, Not, Print and Negate), so pop never fails with "Empty stack" and
\* peek never indexes below the stack.
C32_NoStackUnderflow ==
    pc = "run" => Len(stack) >= operands_taken(chunk.code[ip + 1].op)

\* C32 witness: a Multiply is about to run on a stack of three values, the
\* left operand of a pending operator below its two
C32_Witness ==
    /\ Fetch("Multiply")
    /\ Len(stack) = 3

-----------------------------------------------------------------------------
(* The run inside its chunk *)

\* the dispatch loop begun at offset i decodes instruction after instruction
\* up to a Return that is the last byte of the chunk
RECURSIVE EndsWithReturn(_)
EndsWithReturn(i) ==
    IF i >= Len(chunk.code) THEN FALSE
    ELSE IF i + 1 = Len(chunk.code) THEN chunk.code[i + 1].op = "Return"
    ELSE EndsWithReturn(i + instruction_length(chunk.code[i + 1].op))

\* the instruction about to run lies inside a chunk that ends with a Return
\* at an instruction boundary, and the run goes on past it or returns
StaysInsideChunk ==
    /\ EndsWithReturn(0)
    /\ ip < Len(chunk.code)
    /\ ip + instruction_length(chunk.code[ip + 1].op) <= Len(chunk.code)
    /\ pc' # "dead" => ip' = ip + instruction_length(chunk.code[ip + 1].op)

\* C33: the VM always halts inside the chunk: the chunk of a run ends with a
\* Return byte at an instruction boundary, every instruction and its operand
\* lie before len(code), the instruction pointer moves forward by the length
\* of the instruction, and the instruction either leaves the run going or
\* ends it with Ok or RuntimeError.
C33_RunHaltsInsideChunk ==
    [][pc = "run"
         => /\ StaysInsideChunk
            /\ \/ pc' = "run" /\ result' = result
               \/ pc' = "idle" /\ result' \in {"Ok", "RuntimeError"}]_vars

-----------------------------------------------------------------------------
(* The compile of a finite token sequence *)

\* the tokens of the source the parser has moved past (parser.current is the
\* token of call number pos of scan_token)
Consumed(ps) ==
    IF ps.pos - 1 < Len(ps.tokens) THEN ps.pos - 1 ELSE Len(ps.tokens)

=============================================================================
